---- MODULE Spec2Model ----
(***************************************************************************)
(* Verification model of the OCI conveyor/packer (archive extraction,      *)
(* runscript and environment file generation) and of the in-container      *)
(* bootstrap action script.                                                *)
(*                                                                         *)
(* Strings whose characters matter (paths, shell words) are sequences of   *)
(* one-character strings; a path is a sequence of components.              *)
(***************************************************************************)
EXTENDS Integers, Sequences, FiniteSets, TLC

VARIABLES
    mode,       \* which subsystem this behaviour exercises
    xarchive,   \* extractArchive: the archive read from src
    xpc,        \* extractArchive: position in the function
    xidx,       \* extractArchive: index of the next tar entry
    xfs,        \* extractArchive: the filesystem (path -> node)
    xres,       \* extractArchive: returned error (nil on success)
    imgConfig,  \* cp.imgConfig: Entrypoint, Cmd, Env of the image
    uargs,      \* the positional arguments given to the runscript
    runscript,  \* content of .apptainer.d/runscript
    envfile,    \* content of .apptainer.d/env/10-docker2apptainer.sh
    gidx,       \* insertEnv: index of the next Env element
    gerr,       \* error returned by insertRunScript / insertEnv
    spc,        \* position in insertRunScript / insertEnv / the runscript
    shvars,     \* variables of the shell that runs the runscript
    sargv,      \* outcome of the runscript: the argv it executes
    bsnap,      \* action script: __exported_env__, the inherited environment
    bcmd,       \* action script: __apptainer_cmd__
    bsh,        \* action script: the variables of the shell and their
                \* export attribute
    bro,        \* action script: the read-only variables
    bpc,        \* action script: position in the script
    bi,         \* action script: index in the loop of clear_env / over the
                \* environment scripts
    noglob,     \* action script: the noglob shell option
    bimg,       \* the container image as far as the script has read it
    bout,       \* action script: how the process ended (exec or exit)
    bhist,      \* history: phases visited, assignments made while sourcing,
                \* the environment when restore_env was entered
    bsig,       \* the signals sent to process 1
    rootfs,     \* the bundle's root filesystem (path -> node)
    cp,         \* the OCIConveyorPacker value and the bundle it holds
    cpc,        \* conveyor / scaffold builder: position in the lifecycle
    cres,       \* error returned by the last call (nil on success)
    clog,       \* the steps invoked so far, in order
    other,      \* a second build of the same process, while it does not run
    cache       \* the image cache of Opts.ImgCache: the references it holds

xvars == <<xarchive, xpc, xidx, xfs, xres>>
svars == <<imgConfig, uargs, runscript, envfile, gidx, gerr, spc, shvars,
          sargv>>
bvars == <<bsnap, bcmd, bsh, bro, bpc, bi, noglob, bimg, bout, bhist, bsig>>
cvars == <<rootfs, cp, cpc, cres, clog, other, cache>>
vars == <<mode, xarchive, xpc, xidx, xfs, xres,
          imgConfig, uargs, runscript, envfile, gidx, gerr, spc, shvars,
          sargv, bsnap, bcmd, bsh, bro, bpc, bi, noglob, bimg, bout, bhist,
          bsig, rootfs, cp, cpc, cres, clog, other, cache>>

(***************************************************************************)
(* Bounds                                                                  *)
(***************************************************************************)
MaxEntries == 2     \* entries in an archive
MaxDepth == 2       \* path components in an entry name
MaxList == 2        \* words in Entrypoint and in the user arguments
MaxCmd == 1         \* words in Cmd
MaxCfgWordLen == 1  \* characters in a word of Entrypoint or Cmd
MaxArgWordLen == 2  \* characters in a user argument
MaxEnv == 2         \* elements in the image Env
MaxValLen == 2      \* characters in the value of an Env element

(***************************************************************************)
(* Generic sequence helpers                                                *)
(***************************************************************************)
SeqsUpTo(S, n) == UNION {[1..k -> S] : k \in 0..n}

IsPrefix(p, s) == Len(p) <= Len(s) /\ SubSeq(s, 1, Len(p)) = p

RECURSIVE Concat(_)
Concat(ss) == IF ss = <<>> THEN <<>> ELSE Head(ss) \o Concat(Tail(ss))

(***************************************************************************)
(* Paths.  A component is a sequence of characters; "/t/d" is <<T, D>>.    *)
(***************************************************************************)
SEP == "/"
A == <<"a">>
T == <<"t">>
D == <<"d">>
DD == <<"d", "d">>
DOT == <<".">>
DOTDOT == <<".", ".">>

\* the string of an absolute path: "/" c1 "/" c2 ...  ("/" for the root)
RECURSIVE PathChars(_)
PathChars(p) ==
    IF p = <<>> THEN <<>> ELSE <<SEP>> \o Head(p) \o PathChars(Tail(p))

PathString(p) == IF p = <<>> THEN <<SEP>> ELSE PathChars(p)

\* filepath.Clean on the components of an absolute path: empty and "."
\* components are dropped, ".." removes the component before it (and is
\* dropped at the root).
RECURSIVE CleanFrom(_, _)
CleanFrom(out, rest) ==
    IF rest = <<>> THEN out
    ELSE LET c == Head(rest) IN
         IF c = <<>> \/ c = DOT THEN CleanFrom(out, Tail(rest))
         ELSE IF c = DOTDOT
              THEN CleanFrom(IF out = <<>> THEN out
                             ELSE SubSeq(out, 1, Len(out) - 1), Tail(rest))
              ELSE CleanFrom(Append(out, c), Tail(rest))

Clean(p) == CleanFrom(<<>>, p)

\* filepath.Join(dst, name): the elements joined by the separator, cleaned
Join(dst, name) == Clean(dst \o name)

\* strings.HasPrefix on the path strings
HasPrefix(s, prefix) == IsPrefix(prefix, s)

\* a mutant of the ZipSlip test: the separator is not appended to dst
LegalTargetNoSep(target, dst) ==
    HasPrefix(PathString(target), PathString(Clean(dst)))

\* the ZipSlip test of extractArchive
LegalTarget(target, dst) ==
    HasPrefix(PathString(target), PathString(Clean(dst)) \o <<SEP>>)

(***************************************************************************)
(* extractArchive(src, dst)                                                *)
(***************************************************************************)
TypeDir == "TypeDir"
TypeReg == "TypeReg"
TypeSymlink == "TypeSymlink"

XDst == <<T, D>>                         \* the temp-oci- directory
NameComps == {A, DD, DOTDOT}
EntryNames == SeqsUpTo(NameComps, MaxDepth)
FileData == {<<1, 2>>, <<3>>}
Entries ==
    {[name |-> n, type |-> TypeDir, data |-> <<>>] : n \in EntryNames}
    \cup {[name |-> n, type |-> TypeReg, data |-> d] :
            n \in EntryNames, d \in FileData}
    \cup {[name |-> n, type |-> TypeSymlink, data |-> <<>>] : n \in EntryNames}
Archives ==
    {[gzipped |-> g, entries |-> es] :
        g \in BOOLEAN, es \in SeqsUpTo(Entries, MaxEntries)}

DirNode == [kind |-> "dir", data |-> <<>>]
FileNode(d) == [kind |-> "file", data |-> d]

\* the filesystem before extraction: dst exists and is empty
Ancestors(p) == {SubSeq(p, 1, k) : k \in 0..(Len(p) - 1)}
XInitFS == [p \in Ancestors(XDst) \cup {XDst} |-> DirNode]

Exists(fs, p) == p \in DOMAIN fs
IsDir(fs, p) == Exists(fs, p) /\ fs[p].kind = "dir"

\* os.Stat(p) succeeds: every ancestor is a directory and p exists
StatOK(fs, p) == Exists(fs, p) /\ \A q \in Ancestors(p) : IsDir(fs, q)

\* os.MkdirAll(p) succeeds unless a path on the way is not a directory
MkdirAllOK(fs, p) ==
    \A q \in Ancestors(p) \cup {p} : Exists(fs, q) => IsDir(fs, q)

MkdirAll(fs, p) ==
    [q \in DOMAIN fs \cup Ancestors(p) \cup {p} |->
        IF q \in DOMAIN fs THEN fs[q] ELSE DirNode]

\* os.OpenFile(p, O_CREATE|O_RDWR) succeeds when the parent is a directory
\* and p is not a directory
OpenFileOK(fs, p) ==
    /\ p # <<>>
    /\ IsDir(fs, SubSeq(p, 1, Len(p) - 1))
    /\ ~IsDir(fs, p)

\* io.Copy into a file opened without O_TRUNC: the new bytes replace the
\* first bytes of the old content, the rest of the old content stays
WriteAtStart(old, new) ==
    IF Len(old) > Len(new) THEN new \o SubSeq(old, Len(new) + 1, Len(old))
    ELSE new

OpenAndCopy(fs, p, d) ==
    LET old == IF Exists(fs, p) THEN fs[p].data ELSE <<>>
    IN  [q \in DOMAIN fs \cup {p} |->
            IF q = p THEN FileNode(WriteAtStart(old, d)) ELSE fs[q]]

XTarget(e) == Join(XDst, e.name)

\* the variables of a subsystem that a behaviour does not exercise
XIdle ==
    /\ xarchive = [gzipped |-> FALSE, entries |-> <<>>]
    /\ xpc = "idle" /\ xidx = 1 /\ xfs = XInitFS /\ xres = "idle"

SIdle ==
    /\ imgConfig = [Entrypoint |-> <<>>, Cmd |-> <<>>, Env |-> <<>>]
    /\ uargs = <<>> /\ runscript = "absent" /\ envfile = "absent"
    /\ gidx = 1 /\ gerr = "idle" /\ spc = "idle"
    /\ shvars = "none" /\ sargv = "none"

BIdle ==
    /\ bsnap = <<>> /\ bcmd = <<>> /\ bsh = "none" /\ bro = {}
    /\ bpc = "idle" /\ bi = 1 /\ noglob = FALSE /\ bimg = "none"
    /\ bout = "none" /\ bhist = "none" /\ bsig = <<>>

NoBuild == [id |-> 0]
CIdle ==
    /\ rootfs = "none" /\ cp = "none" /\ cpc = "idle" /\ cres = <<"idle">>
    /\ clog = <<>>
    /\ other = NoBuild /\ cache = {}

InitExtract ==
    /\ mode = "extract"
    /\ CIdle
    /\ xarchive \in Archives
    /\ xpc = "open"
    /\ xidx = 1
    /\ xfs = XInitFS
    /\ xres = "running"
    /\ SIdle /\ BIdle

\* os.Open, Peek, DetectContentType and the gzip branch.  In the gzip branch
\* the reader is bound to a new variable r that shadows the outer one, and
\* gzip.NewReader reads from the file behind the buffered reader, which has
\* already consumed the head of the stream: it fails; were it to succeed,
\* the tar reader would still read the compressed bytes and fail.
ExtractOpen ==
    /\ mode = "extract" /\ xpc = "open"
    /\ IF xarchive.gzipped
       THEN /\ xpc' = "done"
            /\ xres' \in {"GzipError", "TarError"}
       ELSE /\ xpc' = "loop"
            /\ xres' = xres
    /\ UNCHANGED <<mode, cvars, xarchive, xidx, xfs, svars, bvars>>

\* tr.Next() returns io.EOF
ExtractEOF ==
    /\ mode = "extract" /\ xpc = "loop"
    /\ xidx > Len(xarchive.entries)
    /\ xpc' = "done"
    /\ xres' = "nil"
    /\ UNCHANGED <<mode, cvars, xarchive, xidx, xfs, svars, bvars>>

\* one iteration of the loop over the tar entries
ExtractEntry ==
    /\ mode = "extract" /\ xpc = "loop"
    /\ xidx <= Len(xarchive.entries)
    /\ LET e == xarchive.entries[xidx]
           target == XTarget(e)
           fail(err) == /\ xpc' = "done" /\ xres' = err
                        /\ UNCHANGED <<xidx, xfs>>
           next(fs) == /\ xidx' = xidx + 1 /\ xfs' = fs
                       /\ UNCHANGED <<xpc, xres>>
       IN  IF ~LegalTarget(target, XDst)
           THEN fail("IllegalExtractionPath")
           ELSE CASE e.type = TypeDir ->
                       IF StatOK(xfs, target) THEN next(xfs)
                       ELSE IF MkdirAllOK(xfs, target)
                            THEN next(MkdirAll(xfs, target))
                            ELSE fail("MkdirError")
                  [] e.type = TypeReg ->
                       IF OpenFileOK(xfs, target)
                       THEN next(OpenAndCopy(xfs, target, e.data))
                       ELSE fail("OpenError")
                  [] OTHER -> next(xfs)
    /\ UNCHANGED <<mode, cvars, xarchive, svars, bvars>>

NextExtract == ExtractOpen \/ ExtractEOF \/ ExtractEntry

SpecExtract == InitExtract /\ [][NextExtract]_vars

(***************************************************************************)
(* Claims about extractArchive                                             *)
(***************************************************************************)
\* the path lies strictly inside dst
StrictlyInside(p, dst) == IsPrefix(dst, p) /\ Len(p) > Len(dst)

Escapes(e) == ~StrictlyInside(XTarget(e), XDst)

HasEscapingEntry ==
    \E i \in 1..Len(xarchive.entries) : Escapes(xarchive.entries[i])

\* nothing exists outside dst but what existed before the extraction
NothingOutsideDst ==
    \A p \in DOMAIN xfs : p \in DOMAIN XInitFS \/ StrictlyInside(p, XDst)

\* C1 as stated: every archive with an entry that does not resolve strictly
\* inside dst makes extractArchive return the illegal extraction path error,
\* and nothing is ever created outside dst.  (Stated for uncompressed
\* archives, so that a violation does not rest on the gzip branch.)
C1_Original ==
    /\ NothingOutsideDst
    /\ (xpc = "done" /\ ~xarchive.gzipped /\ HasEscapingEntry)
         => xres = "IllegalExtractionPath"

\* C1 amended: no state of an extraction has anything created outside dst;
\* an extraction of an archive with an escaping entry never succeeds; and it
\* returns the illegal extraction path error exactly when it stops at an
\* escaping entry (an earlier entry, or the gzip header, may fail first with
\* its own error).
C1_NoEscape ==
    /\ NothingOutsideDst
    /\ (xpc = "done" /\ HasEscapingEntry) => xres # "nil"
    /\ (xpc = "done" /\ ~xarchive.gzipped /\ xidx <= Len(xarchive.entries)
            /\ Escapes(xarchive.entries[xidx]))
         => xres = "IllegalExtractionPath"
    /\ (xpc = "done" /\ xres = "IllegalExtractionPath")
         => Escapes(xarchive.entries[xidx])

\* an escaping entry is reached after an earlier entry has been written
C1_Witness ==
    /\ xpc = "done" /\ xres = "IllegalExtractionPath"
    /\ xidx > 1
    /\ Escapes(xarchive.entries[xidx])
    /\ DOMAIN xfs # DOMAIN XInitFS

(***************************************************************************)
(* Shell text.  A text is a sequence of characters; the shell reads it     *)
(* into words, removing quotes.                                            *)
(***************************************************************************)
SQ == "'"
DQ == "\""
BSL == "\\"
DOLLAR == "$"
BQ == "backquote"     \* the backquote character
SP == " "
NameStart == {"x", "b"}

RECURSIVE MapChars(_, _)
MapChars(f(_), s) ==
    IF s = <<>> THEN <<>> ELSE f(Head(s)) \o MapChars(f, Tail(s))

\* shell.Escape: backslash, double quote, backtick and dollar get a backslash
EscapeChar(c) == IF c \in {BSL, DQ, BQ, DOLLAR} THEN <<BSL, c>> ELSE <<c>>
Escape(s) == MapChars(EscapeChar, s)

\* shell.EscapeSingleQuotes: a single quote becomes the five characters
\* single quote, double quote, single quote, double quote, single quote
EscapeSingleQuoteChar(c) == IF c = SQ THEN <<SQ, DQ, SQ, DQ, SQ>> ELSE <<c>>
EscapeSingleQuotes(s) == MapChars(EscapeSingleQuoteChar, s)

\* shell.ArgsQuoted: every item escaped and wrapped in double quotes, the
\* items separated by one space
RECURSIVE ArgsQuoted(_)
ArgsQuoted(a) ==
    IF a = <<>> THEN <<>>
    ELSE <<DQ>> \o Escape(Head(a)) \o <<DQ>>
         \o (IF Tail(a) = <<>> THEN <<>> ELSE <<SP>> \o ArgsQuoted(Tail(a)))

\* strconv.Quote, the %q verb: backslash and double quote get a backslash
\* and the whole is wrapped in double quotes
GoQuoteChar(c) == IF c \in {BSL, DQ} THEN <<BSL, c>> ELSE <<c>>
GoQuote(s) == <<DQ>> \o MapChars(GoQuoteChar, s) \o <<DQ>>

\* The shell reading a text into words (quote removal, no field splitting of
\* expansions).  q is the quoting state, cur the word being read.  A
\* parameter expansion or command substitution makes the words depend on the
\* variables of the shell (Expansion); an unterminated quote is a syntax error.
RECURSIVE ShRead(_, _, _, _, _, _)
ShRead(s, i, q, cur, inword, words) ==
    IF i > Len(s)
    THEN IF q # "none" THEN [status |-> "SyntaxError", words |-> <<>>]
         ELSE [status |-> "ok",
               words |-> IF inword THEN Append(words, cur) ELSE words]
    ELSE LET c == s[i]
             n == IF i < Len(s) THEN s[i + 1] ELSE "EOF"
             lit(ch, step) == ShRead(s, i + step, q, Append(cur, ch), TRUE, words)
             expansion == [status |-> "Expansion", words |-> <<>>]
         IN  CASE q = "sq" ->
                    IF c = SQ THEN ShRead(s, i + 1, "none", cur, TRUE, words)
                    ELSE lit(c, 1)
               [] q = "dq" ->
                    IF c = DQ THEN ShRead(s, i + 1, "none", cur, TRUE, words)
                    ELSE IF c = BSL
                         THEN IF n \in {DOLLAR, BQ, DQ, BSL} THEN lit(n, 2)
                              ELSE lit(BSL, 1)
                    ELSE IF c = DOLLAR
                         THEN IF n \in NameStart \cup {DOLLAR} THEN expansion
                              ELSE lit(c, 1)
                    ELSE IF c = BQ THEN expansion
                    ELSE lit(c, 1)
               [] OTHER ->
                    IF c = SP
                    THEN ShRead(s, i + 1, q, <<>>, FALSE,
                                IF inword THEN Append(words, cur) ELSE words)
                    ELSE IF c = SQ THEN ShRead(s, i + 1, "sq", cur, TRUE, words)
                    ELSE IF c = DQ THEN ShRead(s, i + 1, "dq", cur, TRUE, words)
                    ELSE IF c = BSL
                         THEN IF n = "EOF" THEN lit(BSL, 1) ELSE lit(n, 2)
                    ELSE IF c = DOLLAR
                         THEN IF n \in NameStart \cup {DOLLAR, SQ, DQ}
                              THEN expansion ELSE lit(c, 1)
                    ELSE IF c = BQ THEN expansion
                    ELSE lit(c, 1)

ShWords(s) == ShRead(s, 1, "none", <<>>, FALSE, <<>>)

(***************************************************************************)
(* insertRunScript and the runscript it writes                             *)
(***************************************************************************)
CfgChars == {"x", DQ, SQ}
ArgChars == {"x", DQ, DOLLAR}
CfgWords == SeqsUpTo(CfgChars, MaxCfgWordLen)
ArgWords == SeqsUpTo(ArgChars, MaxArgWordLen)

\* the word written after OCI_ENTRYPOINT= and after OCI_CMD=
QuotedList(a) ==
    IF Len(a) > 0
    THEN <<SQ>> \o EscapeSingleQuotes(ArgsQuoted(a)) \o <<SQ>>
    ELSE <<SQ, SQ>>

RunscriptText(cfg) ==
    [perm |-> "0755",
     shebang |-> "#!/bin/sh",
     entrypoint |-> QuotedList(cfg.Entrypoint),
     cmd |-> QuotedList(cfg.Cmd),
     body |-> "runscript body"]

InitRunscript ==
    /\ mode = "runscript"
    /\ CIdle
    /\ imgConfig \in [Entrypoint : SeqsUpTo(CfgWords, MaxList),
                      Cmd : SeqsUpTo(CfgWords, MaxCmd),
                      Env : {<<>>}]
    /\ uargs \in SeqsUpTo(ArgWords, MaxList)
    /\ runscript = "absent" /\ envfile = "absent"
    /\ gidx = 1 /\ gerr = "running" /\ spc = "insertRunScript"
    /\ shvars = "none" /\ sargv = "none"
    /\ XIdle /\ BIdle

\* insertRunScript: os.Create, the WriteString calls, Sync and Chmod; each
\* of Create, WriteString and Chmod may fail, and the error is returned
InsertRunScript ==
    /\ mode = "runscript" /\ spc = "insertRunScript"
    /\ \/ /\ runscript' = RunscriptText(imgConfig)
          /\ gerr' = "nil"
          /\ spc' = "assign"
       \/ /\ gerr' \in {"CreateError", "WriteError", "ChmodError"}
          /\ spc' = "failed"
          /\ UNCHANGED runscript
    /\ UNCHANGED <<mode, cvars, xvars, bvars, imgConfig, uargs, envfile, gidx, shvars, sargv>>

\* the value a shell variable gets from the word of an assignment
AssignedValue(word) ==
    LET r == ShWords(word)
    IN  IF r.status = "ok" /\ Len(r.words) = 1 THEN r.words[1] ELSE "error"

\* runscript: the assignments to OCI_ENTRYPOINT, OCI_CMD and CMDLINE_ARGS
RunscriptAssign ==
    /\ mode = "runscript" /\ spc = "assign"
    /\ LET ep == AssignedValue(runscript.entrypoint)
           cmd == AssignedValue(runscript.cmd)
       IN  IF ep = "error" \/ cmd = "error"
           THEN /\ sargv' = [status |-> "SyntaxError", argv |-> <<>>]
                /\ spc' = "done"
                /\ UNCHANGED shvars
           ELSE /\ shvars' = [OCI_ENTRYPOINT |-> ep, OCI_CMD |-> cmd,
                              CMDLINE_ARGS |-> <<>>,
                              APPTAINER_OCI_RUN |-> <<>>]
                /\ spc' = "args"
                /\ UNCHANGED sargv
    /\ UNCHANGED <<mode, cvars, xvars, bvars, imgConfig, uargs, runscript, envfile, gidx,
                   gerr>>

\* the for loop over the positional parameters: every argument is appended
\* to CMDLINE_ARGS as a space, a double quote, the argument as it is, and a
\* double quote
RECURSIVE CmdlineArgs(_)
CmdlineArgs(args) ==
    IF args = <<>> THEN <<>>
    ELSE <<SP, DQ>> \o Head(args) \o <<DQ>> \o CmdlineArgs(Tail(args))

RunscriptArgs ==
    /\ mode = "runscript" /\ spc = "args"
    /\ shvars' = [shvars EXCEPT !.CMDLINE_ARGS = CmdlineArgs(uargs)]
    /\ spc' = "select"
    /\ UNCHANGED <<mode, cvars, xvars, bvars, imgConfig, uargs, runscript, envfile, gidx,
                   gerr, sargv>>

\* the three if blocks that set APPTAINER_OCI_RUN, in the order of the script
OciRun(ep, cmd, cl, nargs) ==
    LET run0 == <<>>
        run1 == IF cmd = <<>> /\ ep # <<>>
                THEN (IF nargs > 0 THEN ep \o <<SP>> \o cl ELSE ep)
                ELSE run0
        run2 == IF cmd # <<>> /\ ep = <<>>
                THEN (IF nargs > 0 THEN cl ELSE cmd)
                ELSE run1
        run3 == IF nargs > 0 THEN ep \o <<SP>> \o cl
                ELSE ep \o <<SP>> \o cmd
    IN  run3

RunscriptSelect ==
    /\ mode = "runscript" /\ spc = "select"
    /\ shvars' = [shvars EXCEPT !.APPTAINER_OCI_RUN =
                     OciRun(shvars.OCI_ENTRYPOINT, shvars.OCI_CMD,
                            shvars.CMDLINE_ARGS, Len(uargs))]
    /\ spc' = "eval"
    /\ UNCHANGED <<mode, cvars, xvars, bvars, imgConfig, uargs, runscript, envfile, gidx,
                   gerr, sargv>>

\* eval of set with APPTAINER_OCI_RUN, then exec.  set without words leaves the
\* positional parameters as they are; exec without a command does nothing.
RunscriptEvalExec ==
    /\ mode = "runscript" /\ spc = "eval"
    /\ LET r == ShWords(shvars.APPTAINER_OCI_RUN)
           positional == IF r.words = <<>> THEN uargs ELSE r.words
       IN  sargv' = IF r.status # "ok"
                    THEN [status |-> r.status, argv |-> <<>>]
                    ELSE IF positional = <<>>
                         THEN [status |-> "nothing", argv |-> <<>>]
                         ELSE [status |-> "exec", argv |-> positional]
    /\ spc' = "done"
    /\ UNCHANGED <<mode, cvars, xvars, bvars, imgConfig, uargs, runscript, envfile, gidx,
                   gerr, shvars>>

NextRunscript ==
    \/ InsertRunScript
    \/ RunscriptAssign
    \/ RunscriptArgs
    \/ RunscriptSelect
    \/ RunscriptEvalExec

SpecRunscript == InitRunscript /\ [][NextRunscript]_vars

(***************************************************************************)
(* Claims about the runscript                                              *)
(***************************************************************************)
OciArgv == imgConfig.Entrypoint \o (IF uargs # <<>> THEN uargs ELSE imgConfig.Cmd)

RunscriptRan == mode = "runscript" /\ spc = "done"

\* C2: for every image config whose Entrypoint and Cmd are not both empty
\* and every list of user arguments, the runscript ends by executing exactly
\* Entrypoint ++ args when args is non-empty and Entrypoint ++ Cmd otherwise.
C2_ExecsOciArgv ==
    (RunscriptRan /\ (imgConfig.Entrypoint # <<>> \/ imgConfig.Cmd # <<>>))
        => sargv = [status |-> "exec", argv |-> OciArgv]

\* the user arguments hold no character that the shell treats specially
\* inside double quotes
PlainArgs ==
    \A i \in 1..Len(uargs) : \A j \in 1..Len(uargs[i]) :
        uargs[i][j] \notin {DQ, DOLLAR, BSL, BQ}

\* what does hold: with plain user arguments the runscript executes the OCI argv
RunscriptPlainArgs ==
    (RunscriptRan /\ PlainArgs
        /\ (imgConfig.Entrypoint # <<>> \/ imgConfig.Cmd # <<>>))
        => sargv = [status |-> "exec", argv |-> OciArgv]

(***************************************************************************)
(* insertEnv and the environment file it writes                            *)
(***************************************************************************)
EQ == "="
NL == "\n"
EXPORT == "export "                 \* the first word of each line
EnvKeys == {"PATH", "FOO", "BAZ"}   \* a key is one symbol of the element
ValChars == {"b", EQ, DQ}
EnvValues == SeqsUpTo(ValChars, MaxValLen)

\* the elements of imgConfig.Env: KEY or KEY=VALUE
EnvElements ==
    {<<k>> : k \in EnvKeys}
    \cup {<<k, EQ>> \o v : k \in EnvKeys, v \in EnvValues}

\* index of the first "=" of the element, 0 when there is none
RECURSIVE IndexFrom(_, _, _)
IndexFrom(s, c, i) ==
    IF i > Len(s) THEN 0 ELSE IF s[i] = c THEN i ELSE IndexFrom(s, c, i + 1)

\* strings.SplitN(s, c, 2)
SplitN2(s, c) ==
    LET i == IndexFrom(s, c, 1)
    IN  IF i = 0 THEN <<s>>
        ELSE <<SubSeq(s, 1, i - 1), SubSeq(s, i + 1, Len(s))>>

\* a mutant of ExportLine: PATH is written like every other key
ExportLineNoPath(element) ==
    LET envParts == SplitN2(element, EQ)
        key == envParts[1]
    IN  IF Len(envParts) = 1
        THEN <<EXPORT>> \o key \o <<EQ, DQ, DOLLAR, "{">> \o key
             \o <<":", "-", "}", DQ, NL>>
        ELSE <<EXPORT>> \o key \o <<EQ, DQ, DOLLAR, "{">> \o key
             \o <<":", "-">> \o GoQuote(Escape(envParts[2]))
             \o <<"}", DQ, NL>>

\* the line insertEnv writes for one element of Env
ExportLine(element) ==
    LET envParts == SplitN2(element, EQ)
        key == envParts[1]
    IN  IF Len(envParts) = 1
        THEN <<EXPORT>> \o key \o <<EQ, DQ, DOLLAR, "{">> \o key
             \o <<":", "-", "}", DQ, NL>>
        ELSE IF key = <<"PATH">>
             THEN <<EXPORT>> \o key \o <<EQ>>
                  \o GoQuote(Escape(envParts[2])) \o <<NL>>
             ELSE <<EXPORT>> \o key \o <<EQ, DQ, DOLLAR, "{">> \o key
                  \o <<":", "-">> \o GoQuote(Escape(envParts[2]))
                  \o <<"}", DQ, NL>>

ShebangLine == <<"#!/bin/sh", NL>>

InitEnvFile ==
    /\ mode = "envfile"
    /\ CIdle
    /\ imgConfig \in [Entrypoint : {<<>>}, Cmd : {<<>>},
                      Env : SeqsUpTo(EnvElements, MaxEnv)]
    /\ uargs = <<>> /\ runscript = "absent" /\ envfile = "absent"
    /\ gidx = 1 /\ gerr = "running" /\ spc = "insertEnv"
    /\ shvars = "none" /\ sargv = "none"
    /\ XIdle /\ BIdle

EnvUnchanged == UNCHANGED <<mode, cvars, xvars, bvars, imgConfig, uargs, runscript, shvars, sargv>>

\* os.Create and the first WriteString
InsertEnvCreate ==
    /\ mode = "envfile" /\ spc = "insertEnv"
    /\ \/ /\ envfile' = [perm |-> "0666", lines |-> <<ShebangLine>>]
          /\ spc' = "loop"
          /\ UNCHANGED gerr
       \/ /\ gerr' \in {"CreateError", "WriteError"}
          /\ spc' = "failed"
          /\ UNCHANGED envfile
    /\ UNCHANGED gidx
    /\ EnvUnchanged

\* one iteration of the loop over cp.imgConfig.Env
InsertEnvElement ==
    /\ mode = "envfile" /\ spc = "loop"
    /\ gidx <= Len(imgConfig.Env)
    /\ \/ /\ envfile' = [envfile EXCEPT
                 !.lines = Append(@, ExportLine(imgConfig.Env[gidx]))]
          /\ gidx' = gidx + 1
          /\ UNCHANGED <<spc, gerr>>
       \/ /\ gerr' = "WriteError"
          /\ spc' = "failed"
          /\ UNCHANGED <<envfile, gidx>>
    /\ EnvUnchanged

\* Sync and Chmod after the loop
InsertEnvFinish ==
    /\ mode = "envfile" /\ spc = "loop"
    /\ gidx > Len(imgConfig.Env)
    /\ \/ /\ envfile' = [envfile EXCEPT !.perm = "0755"]
          /\ gerr' = "nil"
          /\ spc' = "done"
       \/ /\ gerr' = "ChmodError"
          /\ spc' = "failed"
          /\ UNCHANGED envfile
    /\ UNCHANGED gidx
    /\ EnvUnchanged

NextEnvFile == InsertEnvCreate \/ InsertEnvElement \/ InsertEnvFinish

SpecEnvFile == InitEnvFile /\ [][NextEnvFile]_vars

(***************************************************************************)
(* Claims about the environment file                                       *)
(***************************************************************************)
EnvKeyOf(element) == <<element[1]>>
EnvHasValue(element) == Len(element) >= 2
EnvValueOf(element) == SubSeq(element, 3, Len(element))

\* no character that shell.Escape or %q rewrites
PlainValue(v) == \A j \in 1..Len(v) : v[j] \notin {DQ, DOLLAR, BSL, BQ}

\* the line C3 states for an element
C3_StatedLine(element) ==
    LET k == EnvKeyOf(element) IN
    IF ~EnvHasValue(element)
    THEN <<EXPORT>> \o k \o <<EQ, DQ, DOLLAR, "{">> \o k \o <<":", "-", "}", DQ, NL>>
    ELSE IF k = <<"PATH">>
         THEN <<EXPORT>> \o k \o <<EQ, DQ>> \o EnvValueOf(element) \o <<DQ, NL>>
         ELSE <<EXPORT>> \o k \o <<EQ, DQ, DOLLAR, "{">> \o k \o <<":", "-">>
              \o EnvValueOf(element) \o <<"}", DQ, NL>>

\* the line the code writes for an element with a plain value: the default of
\* a key other than PATH carries its own pair of double quotes (from %q)
C3_WrittenLine(element) ==
    LET k == EnvKeyOf(element) IN
    IF ~EnvHasValue(element)
    THEN <<EXPORT>> \o k \o <<EQ, DQ, DOLLAR, "{">> \o k \o <<":", "-", "}", DQ, NL>>
    ELSE IF k = <<"PATH">>
         THEN <<EXPORT>> \o k \o <<EQ, DQ>> \o EnvValueOf(element) \o <<DQ, NL>>
         ELSE <<EXPORT>> \o k \o <<EQ, DQ, DOLLAR, "{">> \o k \o <<":", "-", DQ>>
              \o EnvValueOf(element) \o <<DQ, "}", DQ, NL>>

EnvFileWritten == mode = "envfile" /\ spc = "done"

EnvFileShape ==
    /\ Len(envfile.lines) = Len(imgConfig.Env) + 1
    /\ envfile.lines[1] = ShebangLine

\* C3 as stated: after the header one export line per element of Env in the
\* original order; PATH=v gives the unconditional export of v in double
\* quotes, KEY=v gives the export of the fallback form with the bare default
\* v, and KEY without a value gives the fallback form with an empty default.
C3_Original ==
    EnvFileWritten =>
        /\ EnvFileShape
        /\ \A i \in 1..Len(imgConfig.Env) :
              (EnvHasValue(imgConfig.Env[i]) => PlainValue(EnvValueOf(imgConfig.Env[i])))
                 => envfile.lines[i + 1] = C3_StatedLine(imgConfig.Env[i])

\* C3 amended: as stated, but the default of a key other than PATH is written
\* inside its own pair of double quotes.
C3_ExportLines ==
    EnvFileWritten =>
        /\ EnvFileShape
        /\ \A i \in 1..Len(imgConfig.Env) :
              (EnvHasValue(imgConfig.Env[i]) => PlainValue(EnvValueOf(imgConfig.Env[i])))
                 => envfile.lines[i + 1] = C3_WrittenLine(imgConfig.Env[i])

\* a file with a PATH line and a line of another key with a value
C3_Witness ==
    /\ EnvFileWritten
    /\ Len(imgConfig.Env) = 2
    /\ imgConfig.Env[1] = <<"PATH", EQ, "b", "b">>
    /\ imgConfig.Env[2] = <<"FOO", EQ, "b", EQ>>

(***************************************************************************)
(* The action script (ActionScript), run inside the started container.     *)
(* A value is a sequence of tokens, <<>> being the empty string; a         *)
(* colon-separated value has one token per entry.  A shell is a record of  *)
(* its variables env (a function on the names that are set), the names exp *)
(* with the export attribute, the positional parameters argv, and wr, the  *)
(* names assigned or unset since the environment scripts started.          *)
(***************************************************************************)
AllowListNoHome == {"PWD", "OPTIND", "UID", "GID", "APPTAINER_APPNAME",
                    "APPTAINER_SHELL"}
AllowList == {"PWD", "HOME", "OPTIND", "UID", "GID", "APPTAINER_APPNAME",
              "APPTAINER_SHELL"}
Markers == {"APPTAINER_NAME", "APPTAINER_CONTAINER"}

\* the order in which getallenv lists the variables
EnvOrder == <<"APPTAINER_APPNAME", "APPTAINER_COMMAND", "APPTAINER_CONTAINER",
              "APPTAINER_NAME", "APPTAINER_SHELL", "FOO", "HOME", "PATH", "PWD">>

Opt(k, vals) == { << <<k, v>> >> : v \in vals } \cup {<<>>}
Always(k, v) == << <<k, v>> >>

\* the environments the container process may inherit, as KEY, value entries
\* the shell override comes with the shell action
ShellOpts(c) ==
    IF c = Always("APPTAINER_COMMAND", <<"shell">>)
    THEN Opt("APPTAINER_SHELL", {<<>>, <<"/bin/zsh">>}) ELSE {<<>>}

Inherited ==
    UNION {
      { a \o c \o Always("APPTAINER_CONTAINER", <<"/img.sif">>) \o n \o s \o f
          \o Always("HOME", <<"/home/u">>) \o Always("PATH", <<"/host/bin">>)
          \o Always("PWD", <<"/cwd">>) :
          a \in Opt("APPTAINER_APPNAME", {<<"app">>}),
          n \in Opt("APPTAINER_NAME", {<<"img.sif">>}),
          s \in ShellOpts(c),
          f \in Opt("FOO", {<<>>, <<"v">>}) } :
      c \in Opt("APPTAINER_COMMAND",
                {<<"exec">>, <<"shell">>, <<"run">>, <<"test">>, <<"start">>,
                 <<"bogus">>}) }

UserArgs == {<<>>, <<"a1">>}

EntryKeys(es) == { es[i][1] : i \in 1..Len(es) }
EntryValue(es, k) == es[CHOOSE i \in 1..Len(es) : es[i][1] = k][2]

IsSet(sh, k) == k \in DOMAIN sh.env
\* ${k:-}
Val(sh, k) == IF IsSet(sh, k) THEN sh.env[k] ELSE <<>>

\* k=v; fails on a read-only variable, and the script goes on
ShAssign(sh, ro, k, v) ==
    IF k \in ro THEN sh
    ELSE [sh EXCEPT !.env = (k :> v) @@ sh.env, !.wr = @ \cup {k}]

\* export k
ShExportName(sh, k) == [sh EXCEPT !.exp = @ \cup {k}]

\* export k=v
ShExport(sh, ro, k, v) ==
    IF k \in ro THEN sh ELSE ShExportName(ShAssign(sh, ro, k, v), k)

\* unset k; fails on a read-only variable, and the script goes on
ShUnset(sh, ro, k) ==
    IF k \in ro THEN sh
    ELSE [sh EXCEPT !.env = [x \in (DOMAIN sh.env) \ {k} |-> sh.env[x]],
                    !.exp = @ \ {k}, !.wr = @ \cup {k}]

\* "${a}:${b}"
Colon(a, b) == (IF a = <<>> THEN <<"">> ELSE a) \o (IF b = <<>> THEN <<"">> ELSE b)

\* getallenv: the exported variables as KEY, value entries
GetAllEnv(sh) ==
    LET F[i \in 0..Len(EnvOrder)] ==
            IF i = 0 THEN <<>>
            ELSE IF IsSet(sh, EnvOrder[i]) /\ EnvOrder[i] \in sh.exp
                 THEN Append(F[i - 1], <<EnvOrder[i], sh.env[EnvOrder[i]]>>)
                 ELSE F[i - 1]
    IN F[Len(EnvOrder)]

\* getenvkey and unescape on an entry of the snapshot
GetEnvKey(e) == e[1]
Unescape(e) == e

\* fixpath: PATH followed by the entries of the default PATH it misses
DefaultPath == <<"/usr/bin", "/bin">>
FixPath(sh) ==
    Val(sh, "PATH") \o
    SelectSeq(DefaultPath,
              LAMBDA d : \A i \in 1..Len(Val(sh, "PATH")) : Val(sh, "PATH")[i] # d)

Running == [kind |-> "running", prog |-> <<>>, argv |-> <<>>, status |-> 0,
            msg |-> "none"]
ExecOut(prog, argv) ==
    [kind |-> "exec", prog |-> prog, argv |-> argv, status |-> 0, msg |-> "none"]
ExitOut(status, msg) ==
    [kind |-> "exit", prog |-> <<>>, argv |-> <<>>, status |-> status, msg |-> msg]

NoImage == [envdir |-> "unread", env |-> <<>>,
            custom |-> [op |-> "unread", key |-> "", val |-> <<>>],
            appdir |-> "unread", legacyenv |-> "unread", exe |-> {}]

InitBoot ==
    /\ mode = "boot"
    /\ CIdle
    /\ \E es \in Inherited, args \in UserArgs :
          bsh = [env |-> [k \in EntryKeys(es) |-> EntryValue(es, k)],
                 exp |-> EntryKeys(es), wr |-> {}, argv |-> args]
    /\ bsnap = <<>> /\ bcmd = <<>> /\ bro = {}
    /\ bpc = "init" /\ bi = 1 /\ noglob = FALSE
    /\ bimg = NoImage
    /\ bout = Running
    /\ bsig = <<>>
    /\ bhist = [phases |-> <<"INIT">>, renv |-> <<>>, touched |-> {}, inject |-> 0,
                missing |-> 0, exitby |-> "none"]
    /\ XIdle /\ SIdle

BootUnchanged == UNCHANGED <<mode, cvars, xvars, svars, bsig>>

\* lines 11-18: the snapshot, the captured action, the application name
BootInit ==
    /\ mode = "boot" /\ bpc = "init"
    /\ bsnap' = GetAllEnv(bsh)
    /\ bcmd' = Val(bsh, "APPTAINER_COMMAND")
    /\ bro' = IF Val(bsh, "APPTAINER_APPNAME") # <<>>
              THEN bro \cup {"APPTAINER_APPNAME"} ELSE bro
    /\ bsh' = ShExportName(bsh, "PWD")
    /\ bpc' = "clear_env"
    /\ UNCHANGED <<bi, noglob, bimg, bout, bhist>>
    /\ BootUnchanged

\* clear_env, line 38
ClearEnvBegin ==
    /\ mode = "boot" /\ bpc = "clear_env"
    /\ noglob' = TRUE
    /\ bi' = 1
    /\ bpc' = "clear_loop"
    /\ bhist' = [bhist EXCEPT !.phases = Append(@, "SANITIZE")]
    /\ UNCHANGED <<bsnap, bcmd, bsh, bro, bimg, bout>>
    /\ BootUnchanged

\* the body of the loop of clear_env on one entry: the shell and the
\* read-only set after it
ClearKeyNoReadonly(sh, ro, e) ==
    IF GetEnvKey(e) \in AllowList \cup Markers THEN [sh |-> sh, ro |-> ro]
    ELSE [sh |-> ShUnset(sh, ro, GetEnvKey(e)), ro |-> ro]
ClearKey(sh, ro, e) ==
    IF GetEnvKey(e) \in AllowList THEN [sh |-> sh, ro |-> ro]
    ELSE IF GetEnvKey(e) \in Markers
         THEN [sh |-> sh, ro |-> ro \cup {GetEnvKey(e)}]
         ELSE [sh |-> ShUnset(sh, ro, GetEnvKey(e)), ro |-> ro]

\* clear_env, lines 40-52, one iteration
ClearEnvKey ==
    /\ mode = "boot" /\ bpc = "clear_loop"
    /\ bi <= Len(bsnap)
    /\ bsh' = ClearKey(bsh, bro, bsnap[bi]).sh
    /\ bro' = ClearKey(bsh, bro, bsnap[bi]).ro
    /\ bi' = bi + 1
    /\ UNCHANGED <<bsnap, bcmd, bpc, noglob, bimg, bout, bhist>>
    /\ BootUnchanged

\* clear_env, line 54
ClearEnvEnd ==
    /\ mode = "boot" /\ bpc = "clear_loop"
    /\ bi > Len(bsnap)
    /\ noglob' = FALSE
    /\ bpc' = "cleared"
    /\ UNCHANGED <<bsnap, bcmd, bsh, bro, bi, bimg, bout, bhist>>
    /\ BootUnchanged

\* the scripts makeFiles writes to /.apptainer.d/env, and the one insertEnv adds
ScaffoldScripts == <<"01-base.sh", "10-docker2apptainer.sh", "90-environment.sh",
                     "95-apps.sh", "99-base.sh", "99-runtimevars.sh">>
\* an environment directory of an image that has no 99-base.sh
NoBaseScripts == <<"01-base.sh">>
EnvDirs == {"absent", "scaffold", "nobase"}
Scripts(envdir) ==
    IF envdir = "scaffold" THEN ScaffoldScripts
    ELSE IF envdir = "nobase" THEN NoBaseScripts
    ELSE <<>>

\* elements of the Env of the image: KEY=val, or KEY alone
EnvEl(k, v) == [key |-> k, has |-> TRUE, val |-> v]
EnvBare(k) == [key |-> k, has |-> FALSE, val |-> <<>>]
ImgEnvs == { <<>>,
             <<EnvEl("FOO", <<"d">>)>>,
             <<EnvEl("FOO", <<>>)>>,
             <<EnvEl("PATH", <<"/img/bin">>), EnvEl("HOME", <<"/root">>),
               EnvBare("FOO")>> }

\* the line insertEnv writes for one element, as the shell executes it
DockerLineNoFallback(sh, ro, el) ==
    ShExport(sh, ro, el.key, el.val)
DockerLine(sh, ro, el) ==
    IF el.has /\ el.key = "PATH" THEN ShExport(sh, ro, "PATH", el.val)
    ELSE ShExport(sh, ro, el.key,
                  IF Val(sh, el.key) # <<>> THEN Val(sh, el.key) ELSE el.val)

\* 10-docker2apptainer.sh
DockerScript(sh, ro, env) ==
    LET F[i \in 0..Len(env)] ==
            IF i = 0 THEN sh ELSE DockerLine(F[i - 1], ro, env[i])
    IN F[Len(env)]

\* what the image puts in 90-environment.sh (or /environment): nothing, an
\* exit, or an export or unset of one variable
CustomTargets == {"FOO", "APPTAINER_NAME", "APPTAINER_CONTAINER",
                  "APPTAINER_APPNAME", "APPTAINER_COMMAND"}
CustomValues(k) ==
    IF k = "APPTAINER_COMMAND" THEN {<<>>, <<"run">>} ELSE {<<>>, <<"e">>}
CustomOps ==
    {[op |-> o, key |-> "", val |-> <<>>] : o \in {"none", "exit"}}
    \cup UNION { {[op |-> "export", key |-> k, val |-> v] : v \in CustomValues(k)} :
                    k \in CustomTargets }
    \cup {[op |-> "unset", key |-> k, val |-> <<>>] : k \in CustomTargets}

CustomScript(sh, ro, c) ==
    IF c.op = "export" THEN ShExport(sh, ro, c.key, c.val)
    ELSE IF c.op = "unset" THEN ShUnset(sh, ro, c.key)
    ELSE sh

\* "/scif/apps/${APPTAINER_APPNAME:-}" followed by suffix
AppPath(sh, suffix) == <<"/scif/apps/">> \o Val(sh, "APPTAINER_APPNAME") \o suffix
AppEntry(sh, suffix) ==
    IF Val(sh, "APPTAINER_APPNAME") = <<"app">>
    THEN IF suffix = "" THEN "/scif/apps/app"
         ELSE IF suffix = "bin" THEN "/scif/apps/app/bin" ELSE "/scif/apps/app/lib"
    ELSE IF suffix = "" THEN "/scif/apps/e"
         ELSE IF suffix = "bin" THEN "/scif/apps/e/bin" ELSE "/scif/apps/e/lib"

\* 95-apps.sh with the directory of the application present: it has a bin and
\* a lib directory and no environment script of its own
AppsPresent(sh, ro) ==
    LET s1 == ShExport(ShExport(ShExportName(sh, "APPTAINER_APPNAME"), ro,
                                "SCIF_APPS", <<"/scif/apps">>),
                       ro, "SCIF_APPROOT", <<AppEntry(sh, "")>>)
        s2 == ShAssign(s1, ro, "PATH", Colon(<<AppEntry(sh, "")>>, Val(s1, "PATH")))
        s3 == ShAssign(s2, ro, "PATH", Colon(<<AppEntry(sh, "bin")>>, Val(s2, "PATH")))
        s4 == ShExport(s3, ro, "LD_LIBRARY_PATH",
                       Colon(<<AppEntry(sh, "lib")>>, Val(s3, "LD_LIBRARY_PATH")))
    IN ShExportName(s4, "PATH")

\* 95-apps.sh: the shell after it, and whether it exits
AppsScriptNoExit(sh, ro, appdir) ==
    IF Val(sh, "APPTAINER_APPNAME") = <<>> THEN [sh |-> sh, exit |-> FALSE]
    ELSE IF appdir = "present" THEN [sh |-> AppsPresent(sh, ro), exit |-> FALSE]
         ELSE [sh |-> ShExportName(sh, "APPTAINER_APPNAME"), exit |-> FALSE]
AppsScript(sh, ro, appdir) ==
    IF Val(sh, "APPTAINER_APPNAME") = <<>> THEN [sh |-> sh, exit |-> FALSE]
    ELSE IF appdir = "present" THEN [sh |-> AppsPresent(sh, ro), exit |-> FALSE]
         ELSE [sh |-> ShExportName(sh, "APPTAINER_APPNAME"), exit |-> TRUE]

\* 99-base.sh
Base99Script(sh, ro) ==
    LET s1 == IF Val(sh, "LD_LIBRARY_PATH") = <<>>
              THEN ShAssign(sh, ro, "LD_LIBRARY_PATH", <<"/.apptainer.d/libs">>)
              ELSE ShAssign(sh, ro, "LD_LIBRARY_PATH",
                            Colon(Val(sh, "LD_LIBRARY_PATH"), <<"/.apptainer.d/libs">>))
        s2 == ShAssign(s1, ro, "PS1", <<"Apptainer> ">>)
    IN ShExportName(ShExportName(s2, "LD_LIBRARY_PATH"), "PS1")

\* 99-runtimevars.sh of the scaffold
RuntimeVarsScriptKeepsOverride(sh, ro) ==
    LET s1 == IF Val(sh, "SING_USER_DEFINED_PREPEND_PATH") # <<>>
              THEN ShAssign(sh, ro, "PATH",
                            Colon(Val(sh, "SING_USER_DEFINED_PREPEND_PATH"), Val(sh, "PATH")))
              ELSE sh
        s2 == IF Val(s1, "SING_USER_DEFINED_APPEND_PATH") # <<>>
              THEN ShAssign(s1, ro, "PATH",
                            Colon(Val(s1, "PATH"), Val(s1, "SING_USER_DEFINED_APPEND_PATH")))
              ELSE s1
        s3 == IF Val(s2, "SING_USER_DEFINED_PATH") # <<>>
              THEN ShAssign(s2, ro, "PATH", Val(s2, "SING_USER_DEFINED_PATH"))
              ELSE s2
        s4 == ShUnset(ShUnset(s3, ro, "SING_USER_DEFINED_PREPEND_PATH"),
                      ro, "SING_USER_DEFINED_APPEND_PATH")
    IN ShExportName(s4, "PATH")
RuntimeVarsScript(sh, ro) ==
    LET s1 == IF Val(sh, "SING_USER_DEFINED_PREPEND_PATH") # <<>>
              THEN ShAssign(sh, ro, "PATH",
                            Colon(Val(sh, "SING_USER_DEFINED_PREPEND_PATH"), Val(sh, "PATH")))
              ELSE sh
        s2 == IF Val(s1, "SING_USER_DEFINED_APPEND_PATH") # <<>>
              THEN ShAssign(s1, ro, "PATH",
                            Colon(Val(s1, "PATH"), Val(s1, "SING_USER_DEFINED_APPEND_PATH")))
              ELSE s1
        s3 == IF Val(s2, "SING_USER_DEFINED_PATH") # <<>>
              THEN ShAssign(s2, ro, "PATH", Val(s2, "SING_USER_DEFINED_PATH"))
              ELSE s2
        s4 == ShUnset(ShUnset(ShUnset(s3, ro, "SING_USER_DEFINED_PREPEND_PATH"),
                              ro, "SING_USER_DEFINED_APPEND_PATH"),
                      ro, "SING_USER_DEFINED_PATH")
    IN ShExportName(s4, "PATH")

\* /.inject-apptainer-env.sh, written by the runtime: no forwarded variable
InjectScript(sh, ro) == sh

\* lines 83-85
EnterSourceEnv ==
    /\ mode = "boot" /\ bpc = "cleared"
    /\ \E d \in EnvDirs :
          /\ bimg' = [bimg EXCEPT !.envdir = d]
          /\ bpc' = IF d = "absent" THEN "legacy" ELSE "env_loop"
    /\ bi' = 1
    /\ bsh' = [bsh EXCEPT !.wr = {}]
    /\ bhist' = [bhist EXCEPT !.phases = Append(@, "SOURCE_ENV")]
    /\ UNCHANGED <<bsnap, bcmd, bro, noglob, bout>>
    /\ BootUnchanged

InEnvLoop(names) ==
    /\ mode = "boot" /\ bpc = "env_loop"
    /\ bi <= Len(Scripts(bimg.envdir))
    /\ Scripts(bimg.envdir)[bi] \in names

\* an exit in a sourced script ends the action script
SourceExit(script) ==
    /\ bpc' = "exited"
    /\ bout' = ExitOut(1, "none")
    /\ bhist' = [bhist EXCEPT !.exitby = script]
    /\ bi' = bi

\* lines 99-105
SourceDocker ==
    /\ InEnvLoop({"10-docker2apptainer.sh", "10-docker.sh"})
    /\ \E env \in ImgEnvs :
          /\ bimg' = [bimg EXCEPT !.env = env]
          /\ bsh' = LET s1 == DockerScript(bsh, bro, env)
                    IN ShExport(s1, bro, "PATH", FixPath(s1))
    /\ bi' = bi + 1
    /\ UNCHANGED <<bsnap, bcmd, bro, bpc, noglob, bout, bhist>>
    /\ BootUnchanged

\* lines 91-98
Source90Environment ==
    /\ InEnvLoop({"90-environment.sh"})
    /\ \E c \in CustomOps :
          /\ bimg' = [bimg EXCEPT !.custom = c]
          /\ bsh' = LET s0 == IF ~IsSet(bsh, "PATH")
                              THEN ShExport(bsh, bro, "PATH", FixPath(bsh))
                              ELSE bsh
                    IN CustomScript(s0, bro, c)
          /\ IF c.op = "exit" THEN SourceExit("90-environment.sh")
             ELSE /\ bi' = bi + 1
                  /\ UNCHANGED <<bpc, bout, bhist>>
    /\ UNCHANGED <<bsnap, bcmd, bro, noglob>>
    /\ BootUnchanged

\* lines 106-111
Source99Base ==
    /\ InEnvLoop({"99-base.sh"})
    /\ bsh' = InjectScript(Base99Script(bsh, bro), bro)
    /\ bhist' = [bhist EXCEPT !.inject = @ + 1]
    /\ bi' = bi + 1
    /\ UNCHANGED <<bsnap, bcmd, bro, bpc, noglob, bimg, bout>>
    /\ BootUnchanged

\* lines 112-114 on 95-apps.sh
SourceApps ==
    /\ InEnvLoop({"95-apps.sh"})
    /\ \E d \in (IF Val(bsh, "APPTAINER_APPNAME") = <<>>
                 THEN {"unread"} ELSE {"absent", "present"}) :
          /\ bimg' = [bimg EXCEPT !.appdir = d]
          /\ bsh' = AppsScript(bsh, bro, d).sh
          /\ IF AppsScript(bsh, bro, d).exit THEN SourceExit("95-apps.sh")
             ELSE /\ bi' = bi + 1
                  /\ UNCHANGED <<bpc, bout, bhist>>
    /\ UNCHANGED <<bsnap, bcmd, bro, noglob>>
    /\ BootUnchanged

\* lines 112-114 on the other scripts of the scaffold
SourceOther ==
    /\ InEnvLoop({"01-base.sh", "99-runtimevars.sh"})
    /\ bsh' = IF Scripts(bimg.envdir)[bi] = "99-runtimevars.sh"
              THEN RuntimeVarsScript(bsh, bro) ELSE bsh
    /\ bi' = bi + 1
    /\ UNCHANGED <<bsnap, bcmd, bro, bpc, noglob, bimg, bout, bhist>>
    /\ BootUnchanged

\* line 117
EnvLoopEnd ==
    /\ mode = "boot" /\ bpc = "env_loop"
    /\ bi > Len(Scripts(bimg.envdir))
    /\ bpc' = "runtimevars_guard"
    /\ UNCHANGED <<bsnap, bcmd, bsh, bro, bi, noglob, bimg, bout, bhist>>
    /\ BootUnchanged

\* lines 118-125
SourceLegacy ==
    /\ mode = "boot" /\ bpc = "legacy"
    /\ \/ /\ bimg' = [bimg EXCEPT !.legacyenv = "absent"]
          /\ bsh' = InjectScript(bsh, bro)
          /\ bpc' = "runtimevars_guard"
          /\ bhist' = [bhist EXCEPT !.inject = @ + 1]
          /\ UNCHANGED <<bi, bout>>
       \/ \E c \in CustomOps :
             /\ bimg' = [bimg EXCEPT !.legacyenv = "present", !.custom = c]
             /\ IF c.op = "exit"
                THEN /\ bsh' = bsh
                     /\ SourceExit("/environment")
                ELSE /\ bsh' = LET s1 == CustomScript(bsh, bro, c)
                               IN InjectScript(ShExport(s1, bro, "PATH", FixPath(s1)), bro)
                     /\ bpc' = "runtimevars_guard"
                     /\ bhist' = [bhist EXCEPT !.inject = @ + 1]
                     /\ UNCHANGED <<bi, bout>>
    /\ UNCHANGED <<bsnap, bcmd, bro, noglob>>
    /\ BootUnchanged

\* lines 127-129: the script is sourced where it is no file; source fails
\* and the action script goes on
RuntimeVarsGuard ==
    /\ mode = "boot" /\ bpc = "runtimevars_guard"
    /\ bhist' = IF \A i \in 1..Len(Scripts(bimg.envdir)) :
                      Scripts(bimg.envdir)[i] # "99-runtimevars.sh"
                THEN [bhist EXCEPT !.missing = @ + 1] ELSE bhist
    /\ bpc' = "restore_env"
    /\ UNCHANGED <<bsnap, bcmd, bsh, bro, bi, noglob, bimg, bout>>
    /\ BootUnchanged

\* line 131 and restore_env, line 65
RestoreEnvBegin ==
    /\ mode = "boot" /\ bpc = "restore_env"
    /\ noglob' = TRUE
    /\ bi' = 1
    /\ bpc' = "restore_loop"
    /\ bhist' = [bhist EXCEPT !.phases = Append(@, "RESTORE"),
                               !.renv = bsh.env, !.touched = bsh.wr]
    /\ UNCHANGED <<bsnap, bcmd, bsh, bro, bimg, bout>>
    /\ BootUnchanged

\* the body of the loop of restore_env on one entry
RestoreKeyKeepEmpty(sh, ro, e) ==
    IF ~IsSet(sh, GetEnvKey(e))
    THEN ShExport(sh, ro, Unescape(e)[1], Unescape(e)[2])
    ELSE sh
RestoreKey(sh, ro, e) ==
    IF ~IsSet(sh, GetEnvKey(e))
    THEN ShExport(sh, ro, Unescape(e)[1], Unescape(e)[2])
    ELSE IF Val(sh, GetEnvKey(e)) = <<>>
         THEN ShUnset(sh, ro, GetEnvKey(e))
         ELSE sh

\* restore_env, lines 70-77, one iteration
RestoreEnvKey ==
    /\ mode = "boot" /\ bpc = "restore_loop"
    /\ bi <= Len(bsnap)
    /\ bsh' = RestoreKey(bsh, bro, bsnap[bi])
    /\ bi' = bi + 1
    /\ UNCHANGED <<bsnap, bcmd, bro, bpc, noglob, bimg, bout, bhist>>
    /\ BootUnchanged

\* restore_env, line 79
RestoreEnvEnd ==
    /\ mode = "boot" /\ bpc = "restore_loop"
    /\ bi > Len(bsnap)
    /\ noglob' = FALSE
    /\ bpc' = "restored"
    /\ UNCHANGED <<bsnap, bcmd, bsh, bro, bi, bimg, bout, bhist>>
    /\ BootUnchanged

\* lines 138-154
PromptScript(sh, ro) ==
    LET s1 == IF Val(sh, "PS1") = <<>>
              THEN ShExport(sh, ro, "PS1", <<"Apptainer> ">>) ELSE sh
        s2 == IF Val(s1, "PROMPT_COMMAND") = <<>>
              THEN ShExport(s1, ro, "PROMPT_COMMAND",
                            <<"PS1=">> \o Val(s1, "PS1") \o <<"; unset PROMPT_COMMAND">>)
              ELSE ShExport(s1, ro, "PROMPT_COMMAND",
                            Val(s1, "PROMPT_COMMAND") \o <<"; PROMPT_COMMAND=; PS1=">>
                                \o Val(s1, "PS1"))
    IN ShExport(s2, ro, "APPTAINER_ENVIRONMENT",
                IF Val(s2, "APPTAINER_ENVIRONMENT") # <<>>
                THEN Val(s2, "APPTAINER_ENVIRONMENT")
                ELSE <<"/.apptainer.d/env/91-environment.sh">>)

PromptSetup ==
    /\ mode = "boot" /\ bpc = "restored"
    /\ bsh' = PromptScript(bsh, bro)
    /\ bpc' = "dispatch"
    /\ bhist' = [bhist EXCEPT !.phases = Append(@, "DISPATCH")]
    /\ UNCHANGED <<bsnap, bcmd, bro, bi, noglob, bimg, bout>>
    /\ BootUnchanged

Leaves == {"EXEC", "SHELL", "RUN", "TEST", "START", "ERROR"}

\* the files of the image a case of the dispatch may test with -x
ShPath == <<"/bin/sh">>
BashPath == <<"/bin/bash">>
RunscriptPath == <<"/.apptainer.d/runscript">>
ApptainerPath == <<"/apptainer">>
TestPath == <<"/.apptainer.d/test">>
StartscriptPath == <<"/.apptainer.d/startscript">>
AppRunscript(sh) == AppPath(sh, <<"/scif/runscript">>)
AppTest(sh) == AppPath(sh, <<"/scif/test">>)

\* line 158: the word the case branches on
DispatchActionFromEnv(cmd, sh) == Val(sh, "APPTAINER_COMMAND")
DispatchAction(cmd, sh) == cmd

\* the dispatch reads which of paths are executable, and ends in leaf
Dispatch(cmd, leaf, paths, out(_), sh(_)) ==
    /\ mode = "boot" /\ bpc = "dispatch"
    /\ DispatchAction(bcmd, bsh) = cmd
    /\ \E exe \in SUBSET paths :
          /\ bimg' = [bimg EXCEPT !.exe = exe]
          /\ bout' = out(exe)
          /\ bsh' = sh(exe)
    /\ bpc' = leaf
    /\ bhist' = [bhist EXCEPT !.phases = Append(@, leaf)]
    /\ UNCHANGED <<bsnap, bro, bi, noglob, bcmd>>
    /\ BootUnchanged

\* lines 159-160; exec without a command does nothing and the script ends
ExecOutcome(sh) ==
    IF sh.argv = <<>> THEN ExitOut(0, "none")
    ELSE ExecOut(<<sh.argv[1]>>, sh.argv)

DispatchExec ==
    Dispatch(<<"exec">>, "EXEC", {}, LAMBDA exe : ExecOutcome(bsh), LAMBDA exe : bsh)

\* lines 161-173
ShellChoiceShFirst(sh, exe) ==
    IF Val(sh, "APPTAINER_SHELL") # <<>> /\ Val(sh, "APPTAINER_SHELL") \in exe
    THEN "APPTAINER_SHELL"
    ELSE IF ShPath \in exe THEN "sh"
         ELSE IF BashPath \in exe THEN "bash" ELSE "none"
ShellChoice(sh, exe) ==
    IF Val(sh, "APPTAINER_SHELL") # <<>> /\ Val(sh, "APPTAINER_SHELL") \in exe
    THEN "APPTAINER_SHELL"
    ELSE IF BashPath \in exe THEN "bash"
         ELSE IF ShPath \in exe THEN "sh" ELSE "none"

ShellOutcome(sh, exe) ==
    IF ShellChoice(sh, exe) = "APPTAINER_SHELL"
    THEN ExecOut(Val(sh, "APPTAINER_SHELL"), Val(sh, "APPTAINER_SHELL") \o sh.argv)
    ELSE IF ShellChoice(sh, exe) = "bash"
         THEN ExecOut(BashPath, BashPath \o <<"--norc">> \o sh.argv)
         ELSE IF ShellChoice(sh, exe) = "sh"
              THEN ExecOut(ShPath, ShPath \o sh.argv)
              ELSE ExitOut(1, "/bin/sh does not exist in container")

ShellEnv(sh, ro, exe) ==
    IF ShellChoice(sh, exe) = "bash" THEN ShExport(sh, ro, "SHELL", BashPath)
    ELSE IF ShellChoice(sh, exe) = "sh" THEN ShExport(sh, ro, "SHELL", ShPath)
         ELSE sh

DispatchShell ==
    Dispatch(<<"shell">>, "SHELL",
             {BashPath, ShPath} \cup ({Val(bsh, "APPTAINER_SHELL")} \ {<<>>}),
             LAMBDA exe : ShellOutcome(bsh, exe),
             LAMBDA exe : ShellEnv(bsh, bro, exe))

\* lines 174-191
RunOutcomeAppFallsBack(sh, exe) ==
    IF Val(sh, "APPTAINER_APPNAME") # <<>> /\ AppRunscript(sh) \in exe
    THEN ExecOut(AppRunscript(sh), AppRunscript(sh) \o sh.argv)
    ELSE IF RunscriptPath \in exe
    THEN ExecOut(RunscriptPath, RunscriptPath \o sh.argv)
    ELSE IF ApptainerPath \in exe
    THEN ExecOut(ApptainerPath, ApptainerPath \o sh.argv)
    ELSE IF ShPath \in exe
    THEN ExecOut(ShPath, ShPath \o sh.argv)
    ELSE ExitOut(1, "No runscript and no /bin/sh executable found in container, aborting")
RunOutcome(sh, exe) ==
    IF Val(sh, "APPTAINER_APPNAME") # <<>>
    THEN IF AppRunscript(sh) \in exe
         THEN ExecOut(AppRunscript(sh), AppRunscript(sh) \o sh.argv)
         ELSE ExitOut(1, "no runscript for contained app")
    ELSE IF RunscriptPath \in exe
    THEN ExecOut(RunscriptPath, RunscriptPath \o sh.argv)
    ELSE IF ApptainerPath \in exe
    THEN ExecOut(ApptainerPath, ApptainerPath \o sh.argv)
    ELSE IF ShPath \in exe
    THEN ExecOut(ShPath, ShPath \o sh.argv)
    ELSE ExitOut(1, "No runscript and no /bin/sh executable found in container, aborting")

DispatchRun ==
    Dispatch(<<"run">>, "RUN",
             {AppRunscript(bsh), RunscriptPath, ApptainerPath, ShPath},
             LAMBDA exe : RunOutcome(bsh, exe), LAMBDA exe : bsh)

\* lines 192-204
TestOutcomeAlwaysSoft(sh, exe) ==
    IF Val(sh, "APPTAINER_APPNAME") # <<>>
    THEN IF AppTest(sh) \in exe
         THEN ExecOut(AppTest(sh), AppTest(sh) \o sh.argv)
         ELSE ExitOut(0, "No test script found in container, exiting")
    ELSE IF TestPath \in exe
    THEN ExecOut(TestPath, TestPath \o sh.argv)
    ELSE ExitOut(0, "No test script found in container, exiting")
TestOutcome(sh, exe) ==
    IF Val(sh, "APPTAINER_APPNAME") # <<>>
    THEN IF AppTest(sh) \in exe
         THEN ExecOut(AppTest(sh), AppTest(sh) \o sh.argv)
         ELSE ExitOut(1, "No tests for contained app")
    ELSE IF TestPath \in exe
    THEN ExecOut(TestPath, TestPath \o sh.argv)
    ELSE ExitOut(0, "No test script found in container, exiting")

DispatchTest ==
    Dispatch(<<"test">>, "TEST", {AppTest(bsh), TestPath},
             LAMBDA exe : TestOutcome(bsh, exe), LAMBDA exe : bsh)

\* lines 205-211
StartOutcome(sh, exe) ==
    IF StartscriptPath \in exe
    THEN ExecOut(StartscriptPath, StartscriptPath \o sh.argv)
    ELSE ExitOut(0, "No instance start script found in container")

DispatchStart ==
    Dispatch(<<"start">>, "START", {StartscriptPath},
             LAMBDA exe : StartOutcome(bsh, exe), LAMBDA exe : bsh)

\* lines 212-214
DispatchUnknown ==
    /\ DispatchAction(bcmd, bsh)
          \notin {<<"exec">>, <<"shell">>, <<"run">>, <<"test">>, <<"start">>}
    /\ Dispatch(DispatchAction(bcmd, bsh), "ERROR", {}, LAMBDA exe : ExitOut(1, "Unknown action"),
                LAMBDA exe : bsh)

NextBoot ==
    \/ BootInit
    \/ ClearEnvBegin
    \/ ClearEnvKey
    \/ ClearEnvEnd
    \/ EnterSourceEnv
    \/ SourceDocker
    \/ Source90Environment
    \/ Source99Base
    \/ SourceApps
    \/ SourceOther
    \/ EnvLoopEnd
    \/ SourceLegacy
    \/ RuntimeVarsGuard
    \/ RestoreEnvBegin
    \/ RestoreEnvKey
    \/ RestoreEnvEnd
    \/ PromptSetup
    \/ DispatchExec
    \/ DispatchShell
    \/ DispatchRun
    \/ DispatchTest
    \/ DispatchStart
    \/ DispatchUnknown

SpecBoot == InitBoot /\ [][NextBoot]_vars

SpecBootFair == SpecBoot /\ WF_vars(NextBoot)

(***************************************************************************)
(* Properties of the action script                                         *)
(***************************************************************************)
SnapKeys == EntryKeys(bsnap)
SnapVal(k) == EntryValue(bsnap, k)
Terminal == bout.kind # "running"
PhaseOrder == <<"INIT", "SANITIZE", "SOURCE_ENV", "RESTORE", "DISPATCH">>
StatedKept == {"PWD", "HOME", "OPTIND", "UID", "GID", "APPTAINER_APPNAME",
               "APPTAINER_SHELL", "APPTAINER_NAME", "APPTAINER_CONTAINER"}
ImageDefaults(k) ==
    { bimg.env[i].val : i \in { j \in 1..Len(bimg.env) :
                                  bimg.env[j].key = k /\ bimg.env[j].has } }

C5_Restore ==
    bpc = "restored" =>
        \A k \in SnapKeys :
            /\ k \notin DOMAIN bhist.renv
                  => IsSet(bsh, k) /\ bsh.env[k] = SnapVal(k) /\ k \in bsh.exp
            /\ (SnapVal(k) # <<>> /\ k \notin bhist.touched)
                  => IsSet(bsh, k) /\ bsh.env[k] = SnapVal(k)
            /\ (k \notin StatedKept /\ k \in DOMAIN bhist.renv /\ bhist.renv[k] = <<>>)
                  => ~IsSet(bsh, k)

\* RESTORE done on a snapshot with an untouched APPTAINER_COMMAND and with
\* FOO, which a script exported empty
C5_Witness ==
    /\ bpc = "restored"
    /\ "APPTAINER_COMMAND" \in SnapKeys /\ "APPTAINER_COMMAND" \notin bhist.touched
    /\ "APPTAINER_COMMAND" \notin DOMAIN bhist.renv
    /\ bsh.env["APPTAINER_COMMAND"] = SnapVal("APPTAINER_COMMAND")
    /\ "FOO" \in SnapKeys /\ SnapVal("FOO") = <<"v">>
    /\ bimg.custom = [op |-> "export", key |-> "FOO", val |-> <<>>]
    /\ ~IsSet(bsh, "FOO")

\* C6: after SANITIZE every variable of the snapshot is unset except the
\* allow-listed ones and the two markers, which keep their snapshot value;
\* noglob is set during the whole loop and cleared after it.
C6_Sanitize ==
    /\ bpc = "clear_loop" => noglob
    /\ bpc = "cleared" =>
          /\ ~noglob
          /\ \A k \in SnapKeys :
                IF k \in StatedKept
                THEN IsSet(bsh, k) /\ bsh.env[k] = SnapVal(k)
                ELSE ~IsSet(bsh, k)

\* SANITIZE done on a snapshot with allow-listed variables, markers and
\* other variables
C6_Witness ==
    /\ bpc = "cleared"
    /\ {"FOO", "PATH", "HOME", "APPTAINER_APPNAME", "APPTAINER_NAME"} \subseteq SnapKeys
    /\ ~IsSet(bsh, "FOO") /\ IsSet(bsh, "HOME")

\* C7: from the end of SANITIZE to the leaf each marker of the snapshot has
\* its snapshot value.
C7_MarkersKept ==
    (mode = "boot" /\ bpc \notin {"init", "clear_env", "clear_loop"}) =>
        \A m \in {"APPTAINER_NAME", "APPTAINER_CONTAINER"} \cap SnapKeys :
            IsSet(bsh, m) /\ bsh.env[m] = SnapVal(m)

\* a leaf reached after the image tried to change or unset a marker
C7_Witness ==
    /\ bpc \in Leaves
    /\ bimg.custom.op \in {"export", "unset"}
    /\ bimg.custom.key = "APPTAINER_NAME"
    /\ "APPTAINER_NAME" \in SnapKeys
    /\ bsh.env["APPTAINER_NAME"] = <<"img.sif">>

AllPhasesThenLeaf ==
    /\ Len(bhist.phases) = 6
    /\ SubSeq(bhist.phases, 1, 5) = PhaseOrder
    /\ bhist.phases[6] \in Leaves
    /\ bpc = bhist.phases[6]

C8_Safe ==
    /\ mode = "boot"
    /\ IsPrefix(bhist.phases, PhaseOrder) \/ AllPhasesThenLeaf
    /\ Terminal <=> bpc \in Leaves \cup {"exited"}
    /\ bpc \in Leaves => AllPhasesThenLeaf
    /\ bpc = "exited" =>
          /\ bhist.phases = SubSeq(PhaseOrder, 1, 3)
          /\ bout = ExitOut(1, "none")
          /\ bhist.exitby \in {"95-apps.sh", "90-environment.sh", "/environment"}
          /\ bhist.exitby # "95-apps.sh" => bimg.custom.op = "exit"
    /\ (bimg.appdir = "absent" /\ Val(bsh, "APPTAINER_APPNAME") # <<>>)
          <=> (bpc = "exited" /\ bhist.exitby = "95-apps.sh")

RunCandidates == <<RunscriptPath, ApptainerPath, ShPath>>
FirstExecutable(i) ==
    /\ i \in 1..Len(RunCandidates)
    /\ RunCandidates[i] \in bimg.exe
    /\ \A j \in 1..(i - 1) : RunCandidates[j] \notin bimg.exe

\* C9: in the run case, with an application name the runscript of the
\* application is executed if executable and else the script exits 1; without
\* one the first executable of the runscript, /apptainer and /bin/sh is
\* executed with the user arguments, and the script exits 1 only if none is.
C9_RunDispatch ==
    bpc = "RUN" =>
        IF Val(bsh, "APPTAINER_APPNAME") # <<>>
        THEN IF AppPath(bsh, <<"/scif/runscript">>) \in bimg.exe
             THEN /\ bout.kind = "exec"
                  /\ bout.prog = AppPath(bsh, <<"/scif/runscript">>)
                  /\ bout.argv = bout.prog \o bsh.argv
             ELSE bout.kind = "exit" /\ bout.status = 1
        ELSE /\ \A i \in 1..Len(RunCandidates) :
                   FirstExecutable(i) =>
                       /\ bout.kind = "exec"
                       /\ bout.prog = RunCandidates[i]
                       /\ bout.argv = RunCandidates[i] \o bsh.argv
             /\ (bout.kind = "exit") <=> (\A i \in 1..Len(RunCandidates) : ~FirstExecutable(i))
             /\ bout.kind = "exit" => bout.status = 1

\* run without an application: the runscript is not executable and /apptainer
\* is executed with the user arguments
C9_Witness ==
    /\ bpc = "RUN"
    /\ Val(bsh, "APPTAINER_APPNAME") = <<>>
    /\ FirstExecutable(2)
    /\ bsh.argv = <<"a1">>
    /\ bout.argv = <<"/apptainer", "a1">>

NoTestAvailable ==
    IF Val(bsh, "APPTAINER_APPNAME") # <<>>
    THEN AppPath(bsh, <<"/scif/test">>) \notin bimg.exe
    ELSE TestPath \notin bimg.exe

NoRunTarget ==
    /\ Val(bsh, "APPTAINER_APPNAME") # <<>>
          => AppPath(bsh, <<"/scif/runscript">>) \notin bimg.exe
    /\ \A i \in 1..Len(RunCandidates) : RunCandidates[i] \notin bimg.exe

\* C10 as stated: test without an available test script exits 0, with or
\* without an application name; run without runscript and shell exits
\* non-zero.
C10_Original ==
    /\ (bpc = "TEST" /\ NoTestAvailable) => (bout.kind = "exit" /\ bout.status = 0)
    /\ (bpc = "RUN" /\ NoRunTarget) => (bout.kind = "exit" /\ bout.status # 0)

\* C10 amended: test exits 0 when no application name is set and the test
\* script is not executable; with an application name whose test script is
\* not executable it exits 1; run without runscript and shell exits non-zero.
C10_TestExit ==
    /\ (bpc = "TEST" /\ NoTestAvailable) =>
          /\ bout.kind = "exit"
          /\ bout.status = IF Val(bsh, "APPTAINER_APPNAME") # <<>> THEN 1 ELSE 0
    /\ (bpc = "RUN" /\ NoRunTarget) => (bout.kind = "exit" /\ bout.status # 0)

\* test of an application without test script, the test of the image being
\* executable
C10_Witness ==
    /\ bpc = "TEST"
    /\ Val(bsh, "APPTAINER_APPNAME") = <<"app">>
    /\ NoTestAvailable
    /\ TestPath \in bimg.exe
    /\ bout.status = 1

\* C11: in the shell case APPTAINER_SHELL is executed when it is not empty
\* and executable; else /bin/bash --norc with SHELL exported as /bin/bash
\* when executable; else /bin/sh with SHELL exported as /bin/sh when
\* executable; else the script reports an error and exits 1 without exec.
C11_ShellDispatch ==
    bpc = "SHELL" =>
        IF Val(bsh, "APPTAINER_SHELL") # <<>> /\ Val(bsh, "APPTAINER_SHELL") \in bimg.exe
        THEN /\ bout.kind = "exec"
             /\ bout.prog = Val(bsh, "APPTAINER_SHELL")
             /\ bout.argv = Val(bsh, "APPTAINER_SHELL") \o bsh.argv
        ELSE IF <<"/bin/bash">> \in bimg.exe
        THEN /\ bout.kind = "exec"
             /\ bout.argv = <<"/bin/bash", "--norc">> \o bsh.argv
             /\ Val(bsh, "SHELL") = <<"/bin/bash">> /\ "SHELL" \in bsh.exp
        ELSE IF <<"/bin/sh">> \in bimg.exe
        THEN /\ bout.kind = "exec"
             /\ bout.argv = <<"/bin/sh">> \o bsh.argv
             /\ Val(bsh, "SHELL") = <<"/bin/sh">> /\ "SHELL" \in bsh.exp
        ELSE /\ bout.kind = "exit" /\ bout.status = 1
             /\ bout.msg # "none"

\* the shell case with an override that is not executable, ending in bash
C11_Witness ==
    /\ bpc = "SHELL"
    /\ Val(bsh, "APPTAINER_SHELL") = <<"/bin/zsh">>
    /\ bimg.exe = {<<"/bin/bash">>, <<"/bin/sh">>}
    /\ bout.argv = <<"/bin/bash", "--norc", "a1">>

CapturedAction ==
    IF "APPTAINER_COMMAND" \in SnapKeys THEN SnapVal("APPTAINER_COMMAND") ELSE <<>>
LeafOfAction(c) ==
    IF c = <<"exec">> THEN "EXEC"
    ELSE IF c = <<"shell">> THEN "SHELL"
    ELSE IF c = <<"run">> THEN "RUN"
    ELSE IF c = <<"test">> THEN "TEST"
    ELSE IF c = <<"start">> THEN "START" ELSE "ERROR"

\* C13: the leaf is the one of the action captured at INIT, whatever the
\* sourced scripts assign to APPTAINER_COMMAND; exec executes the user argv
\* as it is; every other captured value than the five actions, an empty one
\* included, ends in ERROR with exit status 1 and nothing executed.
C13_CapturedAction ==
    bpc \in Leaves =>
        /\ bpc = LeafOfAction(CapturedAction)
        /\ (bpc = "EXEC" /\ bsh.argv # <<>>) =>
              (bout.kind = "exec" /\ bout.argv = bsh.argv /\ bout.prog = <<bsh.argv[1]>>)
        /\ bpc = "ERROR" => (bout.kind = "exit" /\ bout.status = 1)

\* exec captured, a sourced script exported APPTAINER_COMMAND=run
C13_Witness ==
    /\ bpc = "EXEC"
    /\ CapturedAction = <<"exec">>
    /\ bimg.custom = [op |-> "export", key |-> "APPTAINER_COMMAND", val |-> <<"run">>]
    /\ Val(bsh, "APPTAINER_COMMAND") = <<"run">>
    /\ bout.argv = <<"a1">>

(***************************************************************************)
(* The file actions/start of the scaffold (startFileContent)               *)
(***************************************************************************)
StartInherited ==
    { es \in Inherited :
        \E i \in 1..Len(es) : es[i] = <<"APPTAINER_COMMAND", <<"start">>>> }

InitStartFile ==
    /\ mode = "startfile"
    /\ CIdle
    /\ \E es \in StartInherited, args \in UserArgs :
          bsh = [env |-> [k \in EntryKeys(es) |-> EntryValue(es, k)],
                 exp |-> EntryKeys(es), wr |-> {}, argv |-> args]
    /\ bsnap = <<>> /\ bcmd = <<>> /\ bro = {}
    /\ bpc = "kill" /\ bi = 1 /\ noglob = FALSE
    /\ \E d \in EnvDirs : bimg = [NoImage EXCEPT !.envdir = d]
    /\ bout = Running
    /\ bsig = <<>>
    /\ bhist = [phases |-> <<>>, renv |-> <<>>, touched |-> {}, inject |-> 0,
                missing |-> 0, exitby |-> "none"]
    /\ XIdle /\ SIdle

StartFileUnchanged == UNCHANGED <<mode, cvars, xvars, svars, bsnap, bcmd, bro, noglob>>

\* part_001 line 88
StartFileKill ==
    /\ mode = "startfile" /\ bpc = "kill"
    /\ bsig' = Append(bsig, "CONT")
    /\ bpc' = "env_loop"
    /\ UNCHANGED <<bsh, bi, bimg, bout, bhist>>
    /\ StartFileUnchanged

\* a script of the environment directory sourced as it is: the shell after
\* it and whether it exits
SourcedScript(name, sh, ro, env, c, d) ==
    IF name = "10-docker2apptainer.sh"
    THEN [sh |-> DockerScript(sh, ro, env), exit |-> FALSE]
    ELSE IF name = "90-environment.sh"
    THEN [sh |-> CustomScript(sh, ro, c), exit |-> c.op = "exit"]
    ELSE IF name = "95-apps.sh" THEN AppsScript(sh, ro, d)
    ELSE IF name = "99-base.sh" THEN [sh |-> Base99Script(sh, ro), exit |-> FALSE]
    ELSE IF name = "99-runtimevars.sh"
    THEN [sh |-> RuntimeVarsScript(sh, ro), exit |-> FALSE]
    ELSE [sh |-> sh, exit |-> FALSE]

\* part_001 lines 90-94, one iteration
StartFileSource ==
    /\ mode = "startfile" /\ bpc = "env_loop"
    /\ bi <= Len(Scripts(bimg.envdir))
    /\ LET name == Scripts(bimg.envdir)[bi] IN
       \E env \in (IF name = "10-docker2apptainer.sh" THEN ImgEnvs ELSE {bimg.env}),
          c \in (IF name = "90-environment.sh" THEN CustomOps ELSE {bimg.custom}),
          d \in (IF name = "95-apps.sh" /\ Val(bsh, "APPTAINER_APPNAME") # <<>>
                 THEN {"absent", "present"} ELSE {bimg.appdir}) :
            /\ bimg' = [bimg EXCEPT !.env = env, !.custom = c, !.appdir = d]
            /\ bsh' = SourcedScript(name, bsh, bro, env, c, d).sh
            /\ IF SourcedScript(name, bsh, bro, env, c, d).exit
               THEN /\ bpc' = "exited"
                    /\ bout' = ExitOut(1, "none")
                    /\ bhist' = [bhist EXCEPT !.exitby = name]
                    /\ bi' = bi
               ELSE /\ bi' = bi + 1
                    /\ UNCHANGED <<bpc, bout, bhist>>
    /\ bsig' = bsig
    /\ StartFileUnchanged

\* part_001 lines 96-98 and the end of the file
StartFileOutcome(exe) ==
    IF StartscriptPath \in exe THEN ExecOut(StartscriptPath, StartscriptPath)
    ELSE ExitOut(0, "none")

StartFileExec ==
    /\ mode = "startfile" /\ bpc = "env_loop"
    /\ bi > Len(Scripts(bimg.envdir))
    /\ \E exe \in SUBSET {StartscriptPath} :
          /\ bimg' = [bimg EXCEPT !.exe = exe]
          /\ bout' = StartFileOutcome(exe)
    /\ bpc' = "START"
    /\ UNCHANGED <<bsh, bi, bhist, bsig>>
    /\ StartFileUnchanged

NextStartFile == StartFileKill \/ StartFileSource \/ StartFileExec

SpecStartFile == InitStartFile /\ [][NextStartFile]_vars

\* C12 for the action script: when the start case ends, by the exec of the
\* start script or by an exit, the continue signal has been sent to process
\* 1, and without an executable start script the exit status is 0.
C12_ContBeforeStart ==
    (mode = "boot" /\ bpc = "START") =>
        /\ bsig = <<"CONT">>
        /\ StartscriptPath \notin bimg.exe => (bout.kind = "exit" /\ bout.status = 0)

\* the same for the file actions/start of the scaffold: the signal is sent
\* before anything else, whatever ends the file
C12_StartFileCont ==
    (mode = "startfile" /\ bpc # "kill") =>
        /\ bsig = <<"CONT">>
        /\ (bpc = "START" /\ StartscriptPath \notin bimg.exe)
              => (bout.kind = "exit" /\ bout.status = 0)
        /\ (bpc = "START" /\ StartscriptPath \in bimg.exe)
              => (bout.kind = "exec" /\ bout.prog = <<"/.apptainer.d/startscript">>)

(***************************************************************************)
(* The runtime-vars scripts: 99-runtimevars.sh of the scaffold and the     *)
(* RuntimeVars text, each sourced twice in a shell of its own              *)
(***************************************************************************)
\* RuntimeVars, action_scripts.go lines 219-236
RuntimeVars(sh, ro) ==
    LET s1 == IF Val(sh, "SING_USER_DEFINED_PREPEND_PATH") # <<>>
              THEN ShUnset(ShAssign(sh, ro, "PATH",
                                    Colon(Val(sh, "SING_USER_DEFINED_PREPEND_PATH"),
                                          Val(sh, "PATH"))),
                           ro, "SING_USER_DEFINED_PREPEND_PATH")
              ELSE sh
        s2 == IF Val(s1, "SING_USER_DEFINED_APPEND_PATH") # <<>>
              THEN ShUnset(ShAssign(s1, ro, "PATH",
                                    Colon(Val(s1, "PATH"),
                                          Val(s1, "SING_USER_DEFINED_APPEND_PATH"))),
                           ro, "SING_USER_DEFINED_APPEND_PATH")
              ELSE s1
        s3 == IF Val(s2, "SING_USER_DEFINED_PATH") # <<>>
              THEN ShUnset(ShAssign(s2, ro, "PATH", Val(s2, "SING_USER_DEFINED_PATH")),
                           ro, "SING_USER_DEFINED_PATH")
              ELSE s2
    IN ShExportName(s3, "PATH")

RvNames == <<"PATH", "SING_USER_DEFINED_PREPEND_PATH",
             "SING_USER_DEFINED_APPEND_PATH", "SING_USER_DEFINED_PATH">>
UserPathVars == {"SING_USER_DEFINED_PREPEND_PATH", "SING_USER_DEFINED_APPEND_PATH",
                 "SING_USER_DEFINED_PATH"}
RvPathValues == {<<>>, <<"/bin">>, <<"/usr/bin", "/bin">>}
RvUserValues == {<<>>, <<"/z">>, <<"/y", "/x">>}
RvEnvs ==
    UNION { { p \o a \o b \o c :
                a \in Opt(RvNames[2], RvUserValues),
                b \in Opt(RvNames[3], RvUserValues),
                c \in Opt(RvNames[4], RvUserValues) } :
            p \in Opt(RvNames[1], RvPathValues) }
RvVariants == {"99-runtimevars.sh", "RuntimeVars"}

InitRuntimeVars ==
    /\ mode = "runtimevars"
    /\ CIdle
    /\ \E es \in RvEnvs, v \in RvVariants :
          /\ bsh = [env |-> [k \in EntryKeys(es) |-> EntryValue(es, k)],
                    exp |-> {}, wr |-> {}, argv |-> <<>>]
          /\ bhist = [variant |-> v,
                      before |-> [k \in EntryKeys(es) |-> EntryValue(es, k)],
                      first |-> <<>>]
    /\ bsnap = <<>> /\ bcmd = <<>> /\ bro = {}
    /\ bpc = "source" /\ bi = 1 /\ noglob = FALSE
    /\ bimg = "none" /\ bout = "none" /\ bsig = <<>>
    /\ XIdle /\ SIdle

SourceRuntimeVars(v, sh, ro) ==
    IF v = "RuntimeVars" THEN RuntimeVars(sh, ro) ELSE RuntimeVarsScript(sh, ro)

RuntimeVarsFirst ==
    /\ mode = "runtimevars" /\ bpc = "source" /\ bi = 1
    /\ bsh' = SourceRuntimeVars(bhist.variant, bsh, bro)
    /\ bhist' = [bhist EXCEPT !.first = SourceRuntimeVars(bhist.variant, bsh, bro).env]
    /\ bi' = 2
    /\ UNCHANGED <<mode, cvars, xvars, svars, bsnap, bcmd, bro, bpc, noglob, bimg, bout, bsig>>

RuntimeVarsSecond ==
    /\ mode = "runtimevars" /\ bpc = "source" /\ bi = 2
    /\ bsh' = SourceRuntimeVars(bhist.variant, bsh, bro)
    /\ bi' = 3
    /\ UNCHANGED <<mode, cvars, xvars, svars, bsnap, bcmd, bro, bpc, noglob, bimg, bout,
                   bhist, bsig>>

NextRuntimeVars == RuntimeVarsFirst \/ RuntimeVarsSecond

SpecRuntimeVars == InitRuntimeVars /\ [][NextRuntimeVars]_vars

WasSet(k) == k \in DOMAIN bhist.before
Was(k) == IF WasSet(k) THEN bhist.before[k] ELSE <<>>
PathUnchanged ==
    /\ IsSet(bsh, "PATH") <=> WasSet("PATH")
    /\ Val(bsh, "PATH") = Was("PATH")
PrependOnly ==
    /\ Was("SING_USER_DEFINED_PREPEND_PATH") = <<"/z">>
    /\ ~WasSet("SING_USER_DEFINED_APPEND_PATH")
    /\ ~WasSet("SING_USER_DEFINED_PATH")
PathRules ==
    /\ PrependOnly => Val(bsh, "PATH") = Colon(<<"/z">>, Was("PATH"))
    /\ (\A k \in UserPathVars : ~WasSet(k)) => PathUnchanged
    /\ bi = 3 => bsh.env = bhist.first

\* C20 as stated: after the script has run, all three variables are unset
\* whatever they were; prepend alone set to /z gives the old PATH behind /z
\* and a colon; with none set PATH is unchanged; a second sourcing changes
\* nothing.
C20_Original ==
    (mode = "runtimevars" /\ bi > 1) =>
        /\ \A k \in UserPathVars : ~IsSet(bsh, k)
        /\ PathRules

\* C20 amended: as stated, but RuntimeVars leaves set a variable that was
\* set to the empty string; 99-runtimevars.sh of the scaffold unsets all
\* three in every case.
C20_RuntimeVars ==
    (mode = "runtimevars" /\ bi > 1) =>
        /\ \A k \in UserPathVars :
              IF bhist.variant = "RuntimeVars" /\ WasSet(k) /\ Was(k) = <<>>
              THEN IsSet(bsh, k) /\ Val(bsh, k) = <<>>
              ELSE ~IsSet(bsh, k)
        /\ PathRules

\* 99-runtimevars.sh sourced twice with prepend alone set to /z
C20_Witness ==
    /\ mode = "runtimevars" /\ bi = 3
    /\ bhist.variant = "99-runtimevars.sh"
    /\ PrependOnly
    /\ Was("PATH") = <<"/usr/bin", "/bin">>
    /\ Val(bsh, "PATH") = <<"/z", "/usr/bin", "/bin">>
    /\ ~IsSet(bsh, "SING_USER_DEFINED_PREPEND_PATH")

(***************************************************************************)
(* The bundle's root filesystem and the base environment scaffold          *)
(* (makeDirs, makeSymlinks, makeFile, makeFiles, makeBaseEnv).             *)
(*                                                                         *)
(* A path is the sequence of its components below rootPath; rootPath       *)
(* itself is the empty sequence.  A node is absent, a directory, a regular *)
(* file or a symbolic link.  Symbolic links occur only as the last         *)
(* component of a path, and the process does not run as root, so a file    *)
(* without owner write permission cannot be opened for writing.            *)
(***************************************************************************)
MaxLinks == 3   \* symbolic links followed while resolving one path

AD == ".apptainer.d"
RootPath == <<>>

Absent == [kind |-> "absent"]
Dir(m) == [kind |-> "dir", mode |-> m]
File(m, c) == [kind |-> "file", mode |-> m, content |-> c]
Link(t) == [kind |-> "symlink", target |-> t]

\* the content constants of the scaffold, by name
Const(name) == [const |-> name]
\* content that came with the layers of the image
ImageContent == [image |-> "layer"]

\* makeDirs: the directories, in the order of the MkdirAll calls
SkeletonDirs ==
    << <<AD, "libs">>, <<AD, "actions">>, <<AD, "env">>, <<"dev">>,
       <<"proc">>, <<"root">>, <<"var", "tmp">>, <<"tmp">>, <<"etc">>,
       <<"sys">>, <<"home">> >>

\* makeSymlinks: the links, in the order of the Stat / Symlink calls
RootLinks ==
    << [name |-> <<"apptainer">>, target |-> <<AD, "runscript">>],
       [name |-> <<".run">>, target |-> <<AD, "actions", "run">>],
       [name |-> <<".exec">>, target |-> <<AD, "actions", "exec">>],
       [name |-> <<".test">>, target |-> <<AD, "actions", "test">>],
       [name |-> <<".shell">>, target |-> <<AD, "actions", "shell">>],
       [name |-> <<"environment">>,
        target |-> <<AD, "env", "90-environment.sh">>] >>

\* makeFiles: the files, in the order of the makeFile calls
ScaffoldFiles ==
    << [name |-> <<"etc", "hosts">>, perm |-> "0644", s |-> Const("")],
       [name |-> <<"etc", "resolv.conf">>, perm |-> "0644", s |-> Const("")],
       [name |-> <<AD, "actions", "exec">>, perm |-> "0755",
        s |-> Const("execFileContent")],
       [name |-> <<AD, "actions", "run">>, perm |-> "0755",
        s |-> Const("runFileContent")],
       [name |-> <<AD, "actions", "shell">>, perm |-> "0755",
        s |-> Const("shellFileContent")],
       [name |-> <<AD, "actions", "start">>, perm |-> "0755",
        s |-> Const("startFileContent")],
       [name |-> <<AD, "actions", "test">>, perm |-> "0755",
        s |-> Const("testFileContent")],
       [name |-> <<AD, "env", "01-base.sh">>, perm |-> "0755",
        s |-> Const("baseShFileContent")],
       [name |-> <<AD, "env", "90-environment.sh">>, perm |-> "0755",
        s |-> Const("environmentShFileContent")],
       [name |-> <<AD, "env", "95-apps.sh">>, perm |-> "0755",
        s |-> Const("appsShFileContent")],
       [name |-> <<AD, "env", "99-base.sh">>, perm |-> "0755",
        s |-> Const("base99ShFileContent")],
       [name |-> <<AD, "env", "99-runtimevars.sh">>, perm |-> "0755",
        s |-> Const("base99runtimevarsShFileContent")],
       [name |-> <<AD, "runscript">>, perm |-> "0755",
        s |-> Const("runscriptFileContent")],
       [name |-> <<AD, "startscript">>, perm |-> "0755",
        s |-> Const("startscriptFileContent")] >>

\* paths written by Pack after the scaffold, and paths only an image has
RunscriptFile == <<AD, "runscript">>
EnvFile == <<AD, "env", "10-docker2apptainer.sh">>
LabelsFile == <<AD, "labels.json">>
Env91File == <<AD, "env", "91-environment.sh">>
ImageEntry == <<"bin", "entry">>
Gone == <<"gone">>

Range(f) == { f[i] : i \in DOMAIN f }
Prefixes(p) == { SubSeq(p, 1, n) : n \in 0..Len(p) }
Parent(p) == SubSeq(p, 1, Len(p) - 1)

Paths ==
    UNION { Prefixes(p) :
            p \in Range(SkeletonDirs)
                  \cup { l.name : l \in Range(RootLinks) }
                  \cup { f.name : f \in Range(ScaffoldFiles) }
                  \cup {EnvFile, LabelsFile, Env91File, ImageEntry, Gone} }

\* the path a name resolves to when symbolic links are followed, or ELOOP
RECURSIVE Follow(_, _, _)
Follow(fs, p, n) ==
    IF fs[p].kind # "symlink" THEN p
    ELSE IF n = 0 THEN <<"ELOOP">>
    ELSE Follow(fs, fs[p].target, n - 1)

Resolve(fs, p) == Follow(fs, p, MaxLinks)

\* os.Stat: the node a name resolves to, absent when Stat returns an error
Stat(fs, p) ==
    LET t == Resolve(fs, p)
    IN  IF t \in Paths /\ fs[Parent(t)].kind = "dir" THEN fs[t] ELSE Absent

OwnerWritable(m) == m \in {"0755", "0644", "0666", "1777"}
AddOwnerWrite(m) == IF m = "0555" THEN "0755"
                    ELSE IF m = "0444" THEN "0644" ELSE m
\* the permission bits a created file gets under the umask 022
Umask(perm) == IF perm = "0666" THEN "0644" ELSE perm

\* an error is the sequence of its messages, outermost first; nil is empty
NoErr == <<>>
Ok(fs) == [fs |-> fs, err |-> NoErr]
Fail(fs, e) == [fs |-> fs, err |-> <<e>>]

\* os.OsMkdirAll(path, 0755)
RECURSIVE OsMkdirAll(_, _)
OsMkdirAll(fs, p) ==
    LET st == Stat(fs, p)
    IN  IF st.kind = "dir" THEN Ok(fs)
        ELSE IF st.kind # "absent" THEN Fail(fs, "ENOTDIR")
        ELSE LET r == IF Len(p) > 1 THEN OsMkdirAll(fs, Parent(p)) ELSE Ok(fs)
             IN  IF r.err # NoErr THEN r
                 ELSE IF r.fs[p].kind = "absent"
                      THEN Ok([r.fs EXCEPT ![p] = Dir("0755")])
                      ELSE Fail(r.fs, "EEXIST")

RECURSIVE MakeDirsFrom(_, _)
MakeDirsFrom(fs, i) ==
    IF i > Len(SkeletonDirs) THEN Ok(fs)
    ELSE LET r == OsMkdirAll(fs, SkeletonDirs[i])
         IN  IF r.err # NoErr THEN r ELSE MakeDirsFrom(r.fs, i + 1)

makeDirs(fs) == MakeDirsFrom(fs, 1)

\* os.Symlink(target, name)
Symlink(fs, target, name) ==
    IF fs[name].kind # "absent" THEN Fail(fs, "EEXIST")
    ELSE Ok([fs EXCEPT ![name] = Link(target)])

\* one link of makeSymlinks, with Lstat in the place of Stat
MakeSymlinkLstat(fs, l) ==
    IF fs[l.name].kind = "absent" THEN Symlink(fs, l.target, l.name)
    ELSE Ok(fs)

\* one link of makeSymlinks: Symlink is called when Stat returns an error
MakeSymlink(fs, l) ==
    IF Stat(fs, l.name).kind = "absent" THEN Symlink(fs, l.target, l.name)
    ELSE Ok(fs)

RECURSIVE MakeSymlinksFrom(_, _)
MakeSymlinksFrom(fs, i) ==
    IF i > Len(RootLinks) THEN Ok(fs)
    ELSE LET r == MakeSymlink(fs, RootLinks[i])
         IN  IF r.err # NoErr THEN r ELSE MakeSymlinksFrom(r.fs, i + 1)

makeSymlinks(fs) == MakeSymlinksFrom(fs, 1)

\* os.Chmod(name, perm): follows symbolic links
Chmod(fs, p, perm) ==
    LET t == Resolve(fs, p)
    IN  IF Stat(fs, p).kind = "absent" THEN Fail(fs, "ENOENT")
        ELSE Ok([fs EXCEPT ![t].mode = perm])

\* os.OpenFile(name, O_WRONLY|O_CREATE|O_TRUNC, perm) followed by
\* WriteString(s)
CreateAndWrite(fs, p, perm, s) ==
    LET t == Resolve(fs, p)
    IN  IF t \notin Paths THEN Fail(fs, "ELOOP")
        ELSE IF fs[Parent(t)].kind # "dir" THEN Fail(fs, "ENOENT")
        ELSE IF fs[t].kind = "dir" THEN Fail(fs, "EISDIR")
        ELSE IF fs[t].kind = "file"
             THEN IF OwnerWritable(fs[t].mode)
                  THEN Ok([fs EXCEPT ![t].content = s])
                  ELSE Fail(fs, "EACCES")
             ELSE Ok([fs EXCEPT ![t] = File(Umask(perm), s)])

\* makeFile without the Chmod of an existing file
makeFileNoChmod(fs, name, perm, s) ==
    CreateAndWrite(fs, name, perm, s)

\* makeFile(name, perm, s)
makeFile(fs, name, perm, s) ==
    LET c == IF Stat(fs, name).kind = "file" THEN Chmod(fs, name, perm)
             ELSE Ok(fs)
    IN  IF c.err # NoErr THEN c ELSE CreateAndWrite(c.fs, name, perm, s)

RECURSIVE MakeFilesFrom(_, _)
MakeFilesFrom(fs, i) ==
    IF i > Len(ScaffoldFiles) THEN Ok(fs)
    ELSE LET f == ScaffoldFiles[i]
             r == makeFile(fs, f.name, f.perm, f.s)
         IN  IF r.err # NoErr THEN r ELSE MakeFilesFrom(r.fs, i + 1)

makeFiles(fs) == MakeFilesFrom(fs, 1)

Wrap(r, msg) == IF r.err = NoErr THEN r ELSE [r EXCEPT !.err = <<msg>> \o @]

\* makeBaseEnv(rootPath): the result carries the filesystem left behind
\* and the error returned
makeBaseEnv(fs) ==
    IF fs[RootPath].kind = "absent"
    THEN Wrap(Fail(fs, "ENOENT"), "build: failed to stat rootPath")
    ELSE LET w == [fs EXCEPT ![RootPath].mode = AddOwnerWrite(@)]
             d == makeDirs(w)
             l == IF d.err = NoErr THEN makeSymlinks(d.fs) ELSE d
             f == IF l.err = NoErr THEN makeFiles(l.fs) ELSE l
         IN  IF d.err # NoErr
             THEN Wrap(d, "build: failed to make environment dirs")
             ELSE IF l.err # NoErr
             THEN Wrap(l, "build: failed to make environment symlinks")
             ELSE Wrap(f, "build: failed to make environment files")

(***************************************************************************)
(* makeBaseEnv called repeatedly on a rootfs that the layers of an image   *)
(* have populated                                                          *)
(***************************************************************************)
MaxCalls == 2   \* successive calls of makeBaseEnv on one rootfs

EmptyFS(m) == [p \in Paths |-> IF p = RootPath THEN Dir(m) ELSE Absent]

\* every ancestor of an existing path is a directory
WithParents(fs) ==
    [p \in Paths |->
        IF /\ fs[p].kind = "absent"
           /\ \E q \in Paths : /\ fs[q].kind # "absent"
                               /\ Len(q) > Len(p)
                               /\ SubSeq(q, 1, Len(p)) = p
        THEN Dir("0755") ELSE fs[p]]

\* what the layers of an image may have left at the paths of the scaffold
RootModes == {"0755", "0555"}
ImgEnvironment ==
    {Absent, File("0644", ImageContent), Dir("0755"),
     Link(<<AD, "env", "90-environment.sh">>), Link(Gone)}
ImgApptainer == {Absent, Link(RunscriptFile)}
ImgHosts == {Absent, File("0444", ImageContent), Dir("0755"), Link(Gone)}
ImgRunscript == {Absent, File("0644", ImageContent), Link(ImageEntry)}
ImgEnvFile == {Absent, File("0644", ImageContent), File("0444", ImageContent)}
ImgTmp == {Absent, Dir("1777"), File("0644", ImageContent)}

ImageRootfs ==
    { WithParents([EmptyFS(m) EXCEPT
                     ![<<"environment">>] = a,
                     ![<<"apptainer">>] = b,
                     ![<<"etc", "hosts">>] = c,
                     ![RunscriptFile] = d,
                     ![ImageEntry] = IF d.kind = "symlink"
                                     THEN File("0755", ImageContent)
                                     ELSE Absent,
                     ![EnvFile] = e,
                     ![<<"tmp">>] = f]) :
        m \in RootModes, a \in ImgEnvironment, b \in ImgApptainer,
        c \in ImgHosts, d \in ImgRunscript, e \in ImgEnvFile, f \in ImgTmp }

InitBaseEnv ==
    /\ mode = "baseenv"
    /\ rootfs \in ImageRootfs
    /\ cp = "none" /\ cpc = "makeBaseEnv" /\ cres = <<"idle">> /\ clog = <<>>
    /\ other = NoBuild /\ cache = {}
    /\ XIdle /\ SIdle /\ BIdle

\* one call of makeBaseEnv(rootPath); the log keeps the filesystem the call
\* found and the error it returned
CallMakeBaseEnv ==
    /\ mode = "baseenv" /\ cpc = "makeBaseEnv"
    /\ Len(clog) < MaxCalls
    /\ LET r == makeBaseEnv(rootfs)
       IN  /\ rootfs' = r.fs
           /\ cres' = r.err
           /\ clog' = Append(clog, [call |-> "makeBaseEnv", before |-> rootfs,
                                    err |-> r.err])
    /\ UNCHANGED <<mode, xvars, svars, bvars, other, cache, cp, cpc>>

NextBaseEnv == CallMakeBaseEnv

SpecBaseEnv == InitBaseEnv /\ [][NextBaseEnv]_vars

\* what a reader finds at the names of the scaffold files
ScaffoldContent(fs) ==
    [i \in DOMAIN ScaffoldFiles |-> Stat(fs, ScaffoldFiles[i].name)]

Populated(fs) == \E p \in Paths \ {RootPath} : fs[p].kind # "absent"

\* the filesystem the i-th call left behind
After(i) == IF i < Len(clog) THEN clog[i + 1].before ELSE rootfs

\* C14 (as stated): every call of makeBaseEnv on a rootfs that an earlier
\* call or the layers of an image have populated returns no error, and two
\* successive calls leave the scaffold files with identical content.
C14_Original ==
    mode = "baseenv" =>
        \A i \in 1..Len(clog) :
            /\ Populated(clog[i].before) => clog[i].err = NoErr
            /\ i > 1 => ScaffoldContent(After(i)) = ScaffoldContent(After(i - 1))

\* C14 (what the code guarantees): a call of makeBaseEnv that follows a call
\* which returned no error returns no error either and changes nothing in
\* the rootfs.
C14_AfterSuccess ==
    mode = "baseenv" =>
        \A i \in 2..Len(clog) :
            clog[i - 1].err = NoErr =>
                clog[i].err = NoErr /\ After(i) = After(i - 1)

C14_SecondCallAfterSuccess ==
    /\ mode = "baseenv" /\ Len(clog) >= 2
    /\ clog[1].err = NoErr /\ Populated(clog[1].before)
    /\ \E p \in Paths : clog[1].before[p].kind = "symlink"

(***************************************************************************)
(* The conveyor: Get, Pack and CleanUp of an OCIConveyorPacker             *)
(***************************************************************************)
MaxCleanUps == 2   \* calls of CleanUp on one conveyor

\* the cases of the switch with one more transport accepted
TransportsWithShub == {"docker", "docker-archive", "docker-daemon", "oci",
                       "oci-archive", "shub"}

\* the cases of the switch on the bootstrap header in Get
Transports == {"docker", "docker-archive", "docker-daemon", "oci",
               "oci-archive"}
\* the values of the bootstrap header of the recipe
Bootstraps == Transports \cup {"shub", ""}
Euids == {0, 1000}

\* the zero value of imgspecv1.ImageConfig
ZeroConfig == [Entrypoint |-> <<>>, Cmd |-> <<>>, Env |-> <<>>,
               Labels |-> <<>>]
\* the configs an image may carry; Labels is the list of its key/value pairs
ImageConfigs ==
    {ZeroConfig,
     [Entrypoint |-> << <<"x">> >>, Cmd |-> <<>>,
      Env |-> << <<"PATH", EQ, "b">> >>, Labels |-> << <<"k", "v">> >>],
     [Entrypoint |-> <<>>, Cmd |-> << <<"x">> >>,
      Env |-> << <<"FOO">> >>, Labels |-> <<>>]}

EmptyMap == [k \in {} |-> <<>>]

\* a bundle as the caller hands it to Get: its rootfs directory exists and
\* is empty, its JSONObjects map is empty
NewBundle(bootstrap, noCache) ==
    [bootstrap |-> bootstrap, NoCache |-> noCache, JSONObjects |-> EmptyMap,
     scratch |-> "present", TmpDir |-> {}, layers |-> EmptyFS("0755")]

\* a conveyor value before Get
NewConveyor(bundle, euid) ==
    [b |-> "nil", srcRef |-> "nil", tmpfsRef |-> "nil", policyCtx |-> "nil",
     sysCtx |-> "nil", imgConfig |-> ZeroConfig, bundle |-> bundle,
     euid |-> euid, cleanups |-> 0]

InitConveyor ==
    /\ mode = "conveyor"
    /\ \E bs \in Bootstraps, nc \in BOOLEAN, e \in Euids :
          cp = NewConveyor(NewBundle(bs, nc), e)
    /\ rootfs = EmptyFS("0755")
    /\ cpc = "new" /\ cres = <<"idle">> /\ clog = <<>>
    /\ other = NoBuild /\ cache = {}
    /\ XIdle /\ SIdle /\ BIdle

ConveyorUnchanged == UNCHANGED <<mode, xvars, svars, bvars, other, cache>>

\* a return of Get without the deferred removal of the temporary directory
GetReturnsKeepsTmp(c, err, log) ==
    /\ cp' = c
    /\ cres' = err
    /\ cpc' = "afterGet"
    /\ clog' = log

\* a return of Get: the deferred os.RemoveAll(tmpDir) runs
GetReturns(c, err, log) ==
    /\ cp' = [c EXCEPT !.bundle.TmpDir = @ \ {"temp-oci-"}]
    /\ cres' = err
    /\ cpc' = "afterGet"
    /\ clog' = log

\* Get up to the end of the switch on the bootstrap header: cp.b, the policy
\* context, the system context and the source reference.  NewPolicyContext
\* is given a policy made on the spot and does not fail on it.
GetResolve ==
    /\ mode = "conveyor" /\ cpc = "new" /\ cp.cleanups = 0
    /\ LET c1 == [cp EXCEPT !.b = "set", !.policyCtx = "set",
                             !.sysCtx = "set"]
           bs == cp.bundle.bootstrap
           l1 == Append(clog, "NewPolicyContext")
       IN  \/ /\ bs \notin Transports
              /\ GetReturns(c1, <<"oci conveyorPacker does not support", bs>>,
                            l1)
           \/ /\ bs \in Transports
              /\ bs = "oci-archive" => cp.euid = 0
              /\ \/ /\ cp' = [c1 EXCEPT !.srcRef = bs]
                    /\ cpc' = "Get:ConvertReference"
                    /\ clog' = Append(l1, "ParseReference")
                    /\ UNCHANGED cres
                 \/ GetReturns(c1, <<"invalid image source", "ParseReference">>,
                               Append(l1, "ParseReference"))
           \/ /\ bs = "oci-archive" /\ cp.euid # 0
              /\ LET l2 == Append(l1, "TempDir")
                     l3 == Append(l2, "extractArchive")
                     l4 == Append(l3, "ParseReference")
                     c2 == [c1 EXCEPT !.bundle.TmpDir = @ \cup {"temp-oci-"}]
                 IN  \/ GetReturns(c1,
                           <<"could not create temporary oci directory",
                             "TempDir">>, l2)
                     \/ GetReturns(c2,
                           <<"error extracting the OCI archive file",
                             "extractArchive">>, l3)
                     \/ GetReturns(c2, <<"error parsing reference",
                                         "ParseReference">>, l4)
                     \/ /\ cp' = [c2 EXCEPT !.srcRef = "temp-oci-"]
                        /\ cpc' = "Get:ConvertReference"
                        /\ clog' = l4
                        /\ UNCHANGED cres
    /\ UNCHANGED rootfs
    /\ ConveyorUnchanged

\* oci.ConvertReference with a cache that hands out its own reference only
\* for an image it does not hold yet
ConvertReferenceMissOnly(held, ref) ==
    [ref |-> IF ref \in held THEN ref ELSE "cache", held |-> held \cup {ref}]

\* oci.ConvertReference(ctx, imgCache, src, sys) when it succeeds: the
\* reference into the cache that stands for src, and what the cache holds
\* afterwards
ConvertReference(held, ref) ==
    [ref |-> "cache", held |-> held \cup {ref}]

\* Get: oci.ConvertReference unless the cache is disabled, then the
\* reference of the scratch layout
GetConvertReference ==
    /\ mode = "conveyor" /\ cpc = "Get:ConvertReference"
    /\ IF cp.bundle.NoCache
       THEN /\ cp' = [cp EXCEPT !.tmpfsRef = "tmp"]
            /\ cpc' = "Get:fetch"
            /\ UNCHANGED <<cres, clog, cache>>
       ELSE \/ /\ cp' = [cp EXCEPT
                             !.srcRef = ConvertReference(cache, cp.srcRef).ref,
                             !.tmpfsRef = "tmp"]
               /\ cache' = ConvertReference(cache, cp.srcRef).held
               /\ cpc' = "Get:fetch"
               /\ clog' = Append(clog, "ConvertReference")
               /\ UNCHANGED cres
            \/ /\ GetReturns([cp EXCEPT !.srcRef = "nil"],
                             <<"ConvertReference">>,
                             Append(clog, "ConvertReference"))
               /\ UNCHANGED cache
    /\ UNCHANGED <<rootfs, other>>
    /\ UNCHANGED <<mode, xvars, svars, bvars>>

\* Get: cp.fetch, the copy of the image into the scratch layout
GetFetch ==
    /\ mode = "conveyor" /\ cpc = "Get:fetch"
    /\ \/ /\ cp' = [cp EXCEPT !.bundle.TmpDir = @ \cup {"tmp"}]
          /\ cpc' = "Get:getConfig"
          /\ clog' = Append(clog, "fetch")
          /\ UNCHANGED cres
       \/ GetReturns(cp, <<"fetch">>, Append(clog, "fetch"))
    /\ UNCHANGED rootfs
    /\ ConveyorUnchanged

\* Get: cp.getConfig and the return
GetConfig ==
    /\ mode = "conveyor" /\ cpc = "Get:getConfig"
    /\ \/ \E cfg \in ImageConfigs :
             GetReturns([cp EXCEPT !.imgConfig = cfg], NoErr,
                        Append(clog, "getConfig"))
       \/ GetReturns([cp EXCEPT !.imgConfig = ZeroConfig], <<"getConfig">>,
                     Append(clog, "getConfig"))
    /\ UNCHANGED rootfs
    /\ ConveyorUnchanged

\* what unpackRootfs may leave in the rootfs of the bundle
PackRootfs ==
    { fs \in ImageRootfs :
        /\ fs[RootPath].mode = "0755"
        /\ fs[<<"environment">>] \in {Absent, File("0644", ImageContent),
                                     Link(Gone)}
        /\ fs[<<"apptainer">>] = Absent
        /\ fs[<<"etc", "hosts">>] \in {Absent, Dir("0755")}
        /\ fs[<<"tmp">>] = Absent }

\* a return of Pack with an error: the bundle returned is nil
PackFails(msg, err) ==
    /\ cres' = <<msg>> \o err
    /\ cpc' = "afterPack"

\* Pack: cp.unpackTmpfs, the layers of the image unpacked into the rootfs
PackUnpackTmpfs ==
    /\ mode = "conveyor" /\ cpc = "afterGet" /\ cres = NoErr
    /\ cp.cleanups = 0
    /\ clog' = Append(clog, "unpackTmpfs")
    /\ \/ /\ rootfs' \in PackRootfs
          /\ cp' = [cp EXCEPT !.bundle.layers = rootfs']
          /\ cpc' = "Pack:insertBaseEnv"
          /\ UNCHANGED cres
       \/ /\ PackFails("while unpacking tmpfs", <<"unpackRootfs">>)
          /\ UNCHANGED <<rootfs, cp>>
    /\ ConveyorUnchanged

\* insertBaseEnv that logs the error of makeBaseEnv and returns none
PackInsertBaseEnvSwallows ==
    /\ mode = "conveyor" /\ cpc = "Pack:insertBaseEnv"
    /\ clog' = Append(clog, "insertBaseEnv")
    /\ rootfs' = makeBaseEnv(rootfs).fs
    /\ cpc' = "Pack:insertRunScript"
    /\ UNCHANGED <<cp, cres>>
    /\ ConveyorUnchanged

\* Pack: cp.insertBaseEnv
PackInsertBaseEnv ==
    /\ mode = "conveyor" /\ cpc = "Pack:insertBaseEnv"
    /\ clog' = Append(clog, "insertBaseEnv")
    /\ LET r == makeBaseEnv(rootfs)
       IN  /\ rootfs' = r.fs
           /\ IF r.err = NoErr
              THEN cpc' = "Pack:insertRunScript" /\ UNCHANGED cres
              ELSE PackFails("while inserting base environment", r.err)
    /\ UNCHANGED cp
    /\ ConveyorUnchanged

\* os.Create(name), the WriteString calls and os.Chmod(name, 0755) of
\* insertRunScript and insertEnv
CreateWriteChmod(fs, name, s) ==
    LET c == CreateAndWrite(fs, name, "0666", s)
    IN  IF c.err # NoErr THEN c ELSE Chmod(c.fs, name, "0755")

\* the content insertRunScript writes
GeneratedRunscript(cfg) == [runscript |-> RunscriptText(cfg)]

\* the content insertEnv writes
GeneratedEnvFile(cfg) ==
    [envfile |-> <<ShebangLine>>
                 \o [i \in 1..Len(cfg.Env) |-> ExportLine(cfg.Env[i])]]

\* the content insertOCILabels writes
GeneratedLabels(cfg) == [labels |-> cfg.Labels]

\* a file that a failed WriteString left behind
Truncated == [truncated |-> TRUE]

\* a step of Pack that writes one generated file
PackWrites(step, next, msg, r) ==
    /\ clog' = Append(clog, step)
    /\ \/ /\ rootfs' = r.fs
          /\ IF r.err = NoErr
             THEN cpc' = next /\ UNCHANGED cres
             ELSE PackFails(msg, r.err)
       \/ /\ r.err = NoErr
          /\ rootfs' = [r.fs EXCEPT ![Resolve(r.fs, r.name)].content = Truncated]
          /\ PackFails(msg, <<"EIO">>)
    /\ UNCHANGED cp
    /\ ConveyorUnchanged

\* insertRunScript that keeps a runscript that is already there
PackInsertRunScriptKeepsExisting ==
    /\ mode = "conveyor" /\ cpc = "Pack:insertRunScript"
    /\ LET r == IF Stat(rootfs, RunscriptFile).kind = "file" THEN Ok(rootfs)
                ELSE CreateWriteChmod(rootfs, RunscriptFile,
                                      GeneratedRunscript(cp.imgConfig))
       IN  PackWrites("insertRunScript", "Pack:insertEnv",
                      "while inserting runscript",
                      [fs |-> r.fs, err |-> r.err, name |-> RunscriptFile])

\* Pack: cp.insertRunScript
PackInsertRunScript ==
    /\ mode = "conveyor" /\ cpc = "Pack:insertRunScript"
    /\ LET r == CreateWriteChmod(rootfs, RunscriptFile,
                                 GeneratedRunscript(cp.imgConfig))
       IN  PackWrites("insertRunScript", "Pack:insertEnv",
                      "while inserting runscript",
                      [fs |-> r.fs, err |-> r.err, name |-> RunscriptFile])

\* Pack: cp.insertEnv
PackInsertEnv ==
    /\ mode = "conveyor" /\ cpc = "Pack:insertEnv"
    /\ LET r == CreateWriteChmod(rootfs, EnvFile,
                                 GeneratedEnvFile(cp.imgConfig))
       IN  PackWrites("insertEnv", "Pack:insertOCIConfig",
                      "while inserting docker specific environment",
                      [fs |-> r.fs, err |-> r.err, name |-> EnvFile])

\* a Marshal that leaves the labels out
MarshalNoLabels(cfg) ==
    [f \in {g \in DOMAIN cfg : cfg[g] # <<>> /\ g # "Labels"} |-> cfg[f]]

\* json.Marshal of an ImageConfig: a field with an empty value is omitted
Marshal(cfg) == [f \in {g \in DOMAIN cfg : cfg[g] # <<>>} |-> cfg[f]]

\* json.Unmarshal into an ImageConfig
Unmarshal(j) ==
    [f \in DOMAIN ZeroConfig |-> IF f \in DOMAIN j THEN j[f] ELSE <<>>]

MapPut(m, k, v) == [x \in DOMAIN m \cup {k} |-> IF x = k THEN v ELSE m[x]]

\* Pack: cp.insertOCIConfig
PackInsertOCIConfig ==
    /\ mode = "conveyor" /\ cpc = "Pack:insertOCIConfig"
    /\ clog' = Append(clog, "insertOCIConfig")
    /\ cp' = [cp EXCEPT !.bundle.JSONObjects =
                 MapPut(@, "oci-config", Marshal(cp.imgConfig))]
    /\ cpc' = "Pack:insertOCILabels"
    /\ UNCHANGED <<rootfs, cres>>
    /\ ConveyorUnchanged

\* Pack: cp.insertOCILabels and the return of the bundle
PackInsertOCILabels ==
    /\ mode = "conveyor" /\ cpc = "Pack:insertOCILabels"
    /\ LET r == CreateAndWrite(rootfs, LabelsFile, "0644",
                               GeneratedLabels(cp.imgConfig))
       IN  PackWrites("insertOCILabels", "afterPack",
                      "while inserting oci labels",
                      [fs |-> r.fs, err |-> r.err, name |-> LabelsFile])

\* Bundle.Remove: the scratch directories of the bundle are deleted
BundleRemove(bundle) == [bundle EXCEPT !.scratch = "removed", !.TmpDir = {}]

RemovedFS == [p \in Paths |-> Absent]

\* CleanUp: cp.b.Remove(); cp.b is nil until Get has assigned it, and a
\* method that reads a field through a nil pointer panics
CleanUp ==
    /\ mode = "conveyor" /\ cpc \in {"new", "afterGet", "afterPack"}
    /\ cp.cleanups < MaxCleanUps
    /\ clog' = Append(clog, "CleanUp")
    /\ IF cp.b = "nil"
       THEN \/ /\ cpc' = "panicked"
               /\ cres' = <<"panic: nil pointer dereference">>
               /\ UNCHANGED <<rootfs, cp>>
            \/ /\ cp' = [cp EXCEPT !.cleanups = @ + 1]
               /\ UNCHANGED <<rootfs, cpc, cres>>
       ELSE /\ cp' = [cp EXCEPT !.bundle = BundleRemove(@),
                                !.cleanups = @ + 1]
            /\ rootfs' = RemovedFS
            /\ UNCHANGED <<cpc, cres>>
    /\ ConveyorUnchanged

NextConveyor ==
    \/ GetResolve
    \/ GetConvertReference
    \/ GetFetch
    \/ GetConfig
    \/ PackUnpackTmpfs
    \/ PackInsertBaseEnv
    \/ PackInsertRunScript
    \/ PackInsertEnv
    \/ PackInsertOCIConfig
    \/ PackInsertOCILabels
    \/ CleanUp

SpecConveyor == InitConveyor /\ [][NextConveyor]_vars

(***************************************************************************)
(* Claims about the conveyor                                               *)
(***************************************************************************)
GetSucceeded == mode = "conveyor" /\ cpc = "afterGet" /\ cres = NoErr
PackSucceeded ==
    /\ mode = "conveyor" /\ cpc = "afterPack" /\ cres = NoErr
    /\ cp.cleanups = 0

IsFileWithMode(fs, p, m) ==
    Stat(fs, p).kind = "file" /\ Stat(fs, p).mode = m

\* the files of the layout with mode 0755, as the layout lists them
StatedScripts ==
    {<<AD, "actions", a>> : a \in {"exec", "run", "shell", "start", "test"}}
    \cup {<<AD, "env", e>> :
            e \in {"01-base.sh", "90-environment.sh", "95-apps.sh",
                   "99-base.sh", "99-runtimevars.sh",
                   "10-docker2apptainer.sh"}}
    \cup {<<AD, "runscript">>, <<AD, "startscript">>}
StatedLinks ==
    {<<"apptainer">>, <<".run">>, <<".exec">>, <<".test">>, <<".shell">>,
     <<"environment">>}
StatedSkeletonDirs ==
    {<<"dev">>, <<"proc">>, <<"sys">>, <<"tmp">>, <<"var", "tmp">>,
     <<"root">>, <<"home">>}
StatedSkeletonFiles == {<<"etc", "hosts">>, <<"etc", "resolv.conf">>}

LayoutWithout91(fs) ==
    /\ \A p \in StatedScripts : IsFileWithMode(fs, p, "0755")
    /\ IsFileWithMode(fs, LabelsFile, "0644")
    /\ \A l \in StatedLinks : Stat(fs, l).kind # "absent"
    /\ \A d \in StatedSkeletonDirs : Stat(fs, d).kind = "dir"
    /\ \A f \in StatedSkeletonFiles : Stat(fs, f).kind = "file"

\* C15 (as stated): after a successful Pack every path of the scaffold
\* layout exists with the listed mode, env/91-environment.sh among them.
C15_Original ==
    PackSucceeded =>
        /\ LayoutWithout91(rootfs)
        /\ IsFileWithMode(rootfs, Env91File, "0755")

\* C15: after a successful Pack the five action scripts, env/01-base.sh,
\* 90-environment.sh, 95-apps.sh, 99-base.sh, 99-runtimevars.sh,
\* 10-docker2apptainer.sh, runscript and startscript are files of mode 0755,
\* labels.json is a file of mode 0644, the six root link names resolve and
\* the base directory skeleton exists; env/91-environment.sh does not exist
\* unless the layers of the image brought it.
C15_Layout ==
    PackSucceeded =>
        /\ LayoutWithout91(rootfs)
        /\ rootfs[Env91File] = cp.bundle.layers[Env91File]

C15_Witness ==
    /\ PackSucceeded
    /\ rootfs[Env91File].kind = "absent"
    /\ cp.bundle.layers[<<"environment">>].kind = "file"

Occurrences(log, step) == { i \in DOMAIN log : log[i] = step }

\* C16: a step of Pack that writes a generated script runs only after the
\* layer unpack and the base scaffold have run without error, and after a
\* successful Pack each of insertRunScript and insertEnv has run once and
\* the names .apptainer.d/runscript and
\* .apptainer.d/env/10-docker2apptainer.sh hold the text generated from the
\* image config, not the scaffold default and not what the image brought.
C16_GeneratedLast ==
    mode = "conveyor" =>
        /\ \A i \in DOMAIN clog :
              clog[i] \in {"insertRunScript", "insertEnv"} =>
                  \E j, k \in 1..(i - 1) :
                      /\ j < k
                      /\ clog[j] = "unpackTmpfs"
                      /\ clog[k] = "insertBaseEnv"
        /\ PackSucceeded =>
              /\ Cardinality(Occurrences(clog, "insertRunScript")) = 1
              /\ Cardinality(Occurrences(clog, "insertEnv")) = 1
              /\ Stat(rootfs, RunscriptFile).kind = "file"
              /\ Stat(rootfs, RunscriptFile).content
                    = GeneratedRunscript(cp.imgConfig)
              /\ Stat(rootfs, EnvFile).kind = "file"
              /\ Stat(rootfs, EnvFile).content = GeneratedEnvFile(cp.imgConfig)

C16_Witness ==
    /\ PackSucceeded
    /\ cp.bundle.layers[RunscriptFile] = File("0644", ImageContent)
    /\ cp.bundle.layers[EnvFile] = File("0644", ImageContent)
    /\ cp.imgConfig.Entrypoint # <<>>

HasOciConfig == "oci-config" \in DOMAIN cp.bundle.JSONObjects

\* C17 (as stated): after a successful Get the slot "oci-config" of the
\* bundle's JSONObjects holds JSON that reflects the fetched image config.
C17_Original ==
    GetSucceeded =>
        /\ HasOciConfig
        /\ Unmarshal(cp.bundle.JSONObjects["oci-config"]) = cp.imgConfig

\* C17: the slot "oci-config" is written by the insertOCIConfig step of
\* Pack and not by Get: it is absent until that step has run, and from then
\* on it holds JSON that decodes to the image config fetched by Get.
C17_OciConfigByPack ==
    mode = "conveyor" =>
        IF Occurrences(clog, "insertOCIConfig") = {}
        THEN ~HasOciConfig
        ELSE /\ HasOciConfig
             /\ Unmarshal(cp.bundle.JSONObjects["oci-config"]) = cp.imgConfig

C17_Witness ==
    /\ PackSucceeded
    /\ cp.imgConfig.Labels # <<>>
    /\ cp.imgConfig.Cmd = <<>>

\* the transports the claim names
StatedTransports == {"docker", "docker-archive", "docker-daemon", "oci",
                     "oci-archive"}

\* C18: with a bootstrap header that is none of docker, docker-archive,
\* docker-daemon, oci and oci-archive, Get returns the error "oci
\* conveyorPacker does not support ..." without having parsed a reference,
\* converted it through the cache, copied a layer or fetched the config, and
\* srcRef, tmpfsRef and imgConfig keep their zero values.
C18_UnsupportedTransport ==
    (mode = "conveyor" /\ cp.bundle.bootstrap \notin StatedTransports) =>
        /\ cpc \in {"new", "afterGet", "panicked"}
        /\ Range(clog) \subseteq {"NewPolicyContext", "CleanUp"}
        /\ cp.srcRef = "nil" /\ cp.tmpfsRef = "nil"
        /\ cp.imgConfig = ZeroConfig
        /\ cp.bundle.TmpDir = {}
        /\ cpc = "afterGet" =>
              cres = <<"oci conveyorPacker does not support",
                       cp.bundle.bootstrap>>

C18_Witness ==
    /\ mode = "conveyor" /\ cpc = "afterGet"
    /\ cp.bundle.bootstrap = "shub"
    /\ cp.b = "set"

\* C19: CleanUp completes without a fault in every state of the lifecycle
\* (before Get, after a Get or a Pack that failed, a second time) and leaves
\* the scratch resources of the bundle removed.
C19_CleanUpSafe ==
    mode = "conveyor" =>
        /\ cpc # "panicked"
        /\ (cp.cleanups > 0 /\ cp.b # "nil") =>
              cp.bundle.scratch = "removed" /\ rootfs = RemovedFS

\* what holds of CleanUp once Get has been called: it does not fault, with
\* any outcome of Get and of Pack, and the scratch resources are removed
C19_CleanUpAfterGet ==
    (mode = "conveyor" /\ cp.b # "nil") =>
        /\ cpc # "panicked"
        /\ cp.cleanups > 0 =>
              cp.bundle.scratch = "removed" /\ rootfs = RemovedFS

(***************************************************************************)
(* makeSymlinks and makeFile called on their own on a rootfs that the      *)
(* layers of an image have populated                                       *)
(***************************************************************************)
\* the names and contents makeFile is called with
MakeFileCalls ==
    { f \in Range(ScaffoldFiles) :
        f.name \in {<<"etc", "hosts">>, RunscriptFile,
                    <<AD, "env", "90-environment.sh">>} }
    \cup {[name |-> EnvFile, perm |-> "0755", s |-> Const("")],
          [name |-> <<"environment">>, perm |-> "0644",
           s |-> Const("environmentShFileContent")]}

InitScaffoldOps ==
    /\ mode = "scaffoldops"
    /\ rootfs \in ImageRootfs
    /\ cp = "none" /\ cpc = "call" /\ cres = <<"idle">> /\ clog = <<>>
    /\ other = NoBuild /\ cache = {}
    /\ XIdle /\ SIdle /\ BIdle

\* one call of makeSymlinks(rootPath)
CallMakeSymlinks ==
    /\ mode = "scaffoldops" /\ cpc = "call"
    /\ LET r == makeSymlinks(rootfs)
       IN  /\ rootfs' = r.fs
           /\ cres' = r.err
           /\ clog' = <<[call |-> "makeSymlinks", before |-> rootfs,
                         err |-> r.err]>>
    /\ cpc' = "returned"
    /\ UNCHANGED <<mode, xvars, svars, bvars, other, cache, cp>>

\* one call of makeFile(name, perm, s)
CallMakeFile ==
    /\ mode = "scaffoldops" /\ cpc = "call"
    /\ \E f \in MakeFileCalls :
          LET r == makeFile(rootfs, f.name, f.perm, f.s)
          IN  /\ rootfs' = r.fs
              /\ cres' = r.err
              /\ clog' = <<[call |-> "makeFile", before |-> rootfs,
                            err |-> r.err, name |-> f.name, perm |-> f.perm,
                            s |-> f.s]>>
    /\ cpc' = "returned"
    /\ UNCHANGED <<mode, xvars, svars, bvars, other, cache, cp>>

NextScaffoldOps == CallMakeSymlinks \/ CallMakeFile

SpecScaffoldOps == InitScaffoldOps /\ [][NextScaffoldOps]_vars

Returned(call) ==
    mode = "scaffoldops" /\ cpc = "returned" /\ clog[1].call = call

\* C22: makeSymlinks does not fail; a name of the six root links at which a
\* file, a directory or a symbolic link (its target resolving or not) was
\* present is left as it was, and a name at which nothing was present is a
\* link to its target in .apptainer.d afterwards.
C22_LinksOnlyIfAbsent ==
    Returned("makeSymlinks") =>
        /\ clog[1].err = NoErr
        /\ \A i \in DOMAIN RootLinks :
              LET n == RootLinks[i].name
              IN  IF clog[1].before[n].kind = "absent"
                  THEN rootfs[n] = Link(RootLinks[i].target)
                  ELSE rootfs[n] = clog[1].before[n]

\* what makeSymlinks does: a name that Stat resolves is left as it was, a
\* name at which nothing is present becomes the link, and with a link whose
\* target does not resolve at one of the names the call fails with EEXIST
\* and leaves that link as it was
C22_StatDecides ==
    Returned("makeSymlinks") =>
        LET before == clog[1].before
            Dangling == { i \in DOMAIN RootLinks :
                            /\ before[RootLinks[i].name].kind = "symlink"
                            /\ Stat(before, RootLinks[i].name).kind = "absent" }
        IN  /\ (clog[1].err = NoErr) <=> (Dangling = {})
            /\ clog[1].err # NoErr => clog[1].err = <<"EEXIST">>
            /\ \A i \in DOMAIN RootLinks :
                  LET n == RootLinks[i].name
                  IN  before[n].kind # "absent" => rootfs[n] = before[n]

\* C23: after a successful call of makeFile the name holds a regular file
\* whose content is s, whether or not a file was there before; when a
\* regular file was there before, with any permission bits, the call
\* succeeds and the mode of the file is perm.
C23_MakeFile ==
    Returned("makeFile") =>
        LET c == clog[1]
            old == Stat(c.before, c.name)
            new == Stat(rootfs, c.name)
        IN  /\ c.err = NoErr => new.kind = "file" /\ new.content = c.s
            /\ old.kind = "file" => c.err = NoErr /\ new.mode = c.perm

C23_Witness ==
    /\ Returned("makeFile")
    /\ clog[1].err = NoErr
    /\ Stat(clog[1].before, clog[1].name) = File("0444", ImageContent)

(***************************************************************************)
(* Claims about the decoding and the writing of extractArchive             *)
(***************************************************************************)
\* what the loop of extractArchive does with one entry of a tar stream
ExtractStep(fs, e) ==
    LET target == XTarget(e)
    IN  IF ~LegalTarget(target, XDst)
        THEN [fs |-> fs, err |-> "IllegalExtractionPath"]
        ELSE CASE e.type = TypeDir ->
                    IF StatOK(fs, target) THEN [fs |-> fs, err |-> "nil"]
                    ELSE IF MkdirAllOK(fs, target)
                         THEN [fs |-> MkdirAll(fs, target), err |-> "nil"]
                         ELSE [fs |-> fs, err |-> "MkdirError"]
               [] e.type = TypeReg ->
                    IF OpenFileOK(fs, target)
                    THEN [fs |-> OpenAndCopy(fs, target, e.data),
                          err |-> "nil"]
                    ELSE [fs |-> fs, err |-> "OpenError"]
               [] OTHER -> [fs |-> fs, err |-> "nil"]

\* the extraction of a tar stream that the tar reader is given as it is
RECURSIVE ExtractFrom(_, _, _)
ExtractFrom(fs, entries, i) ==
    IF i > Len(entries) THEN [fs |-> fs, err |-> "nil"]
    ELSE LET r == ExtractStep(fs, entries[i])
         IN  IF r.err # "nil" THEN r ELSE ExtractFrom(r.fs, entries, i + 1)

ExtractPlain(entries) == ExtractFrom(XInitFS, entries, 1)

ExtractDone == mode = "extract" /\ xpc = "done"

\* the loop over the entries and the extraction of the whole stream agree
ExtractAgrees ==
    (ExtractDone /\ ~xarchive.gzipped) =>
        /\ xres = ExtractPlain(xarchive.entries).err
        /\ xfs = ExtractPlain(xarchive.entries).fs

\* C24: the extraction of the gzip-compressed form of a tar archive returns
\* what the extraction of the uncompressed form returns and leaves the same
\* directories and file contents in dst.
C24_GzipSameAsPlain ==
    (ExtractDone /\ xarchive.gzipped) =>
        /\ xres = ExtractPlain(xarchive.entries).err
        /\ xfs = ExtractPlain(xarchive.entries).fs

\* what happens to a gzip-compressed archive: the extraction fails before an
\* entry is read and dst stays empty
C24_GzipFails ==
    (ExtractDone /\ xarchive.gzipped) =>
        /\ xres \in {"GzipError", "TarError"}
        /\ xfs = XInitFS /\ xidx = 1

\* the entry the loop has processed last, when it has processed one
Processed == mode = "extract" /\ xidx > 1
LastEntry == xarchive.entries[xidx - 1]

\* C25: after a regular-file entry has been processed the target holds the
\* bytes of the entry and nothing else, also when a file was at the target
\* before; a directory entry leaves a directory at the target; an entry of
\* another type changes nothing.
C25_EntryWritten ==
    Processed =>
        LET e == LastEntry
            t == XTarget(e)
            prev == ExtractFrom(XInitFS,
                                SubSeq(xarchive.entries, 1, xidx - 2), 1).fs
        IN  CASE e.type = TypeReg ->
                    Exists(xfs, t) /\ xfs[t] = FileNode(e.data)
              [] e.type = TypeDir ->
                    IF StatOK(prev, t) THEN xfs = prev ELSE IsDir(xfs, t)
              [] OTHER -> xfs = prev

\* what the loop does with a regular-file entry: the file is opened without
\* O_TRUNC, so the bytes of the entry replace the head of the old content
\* and the rest of a longer old content stays
C25_HeadOverwritten ==
    Processed =>
        LET e == LastEntry
            t == XTarget(e)
            prev == ExtractFrom(XInitFS,
                                SubSeq(xarchive.entries, 1, xidx - 2), 1).fs
            old == IF Exists(prev, t) THEN prev[t].data ELSE <<>>
        IN  CASE e.type = TypeReg ->
                    /\ Exists(xfs, t)
                    /\ xfs[t] = FileNode(WriteAtStart(old, e.data))
                    /\ Len(old) <= Len(e.data) => xfs[t] = FileNode(e.data)
              [] e.type = TypeDir ->
                    IF StatOK(prev, t) THEN xfs = prev ELSE IsDir(xfs, t)
              [] OTHER -> xfs = prev

(***************************************************************************)
(* Claims about the temporary directory and the errors of Get and Pack     *)
(***************************************************************************)
InGetAfterResolve ==
    cpc \in {"Get:ConvertReference", "Get:fetch", "Get:getConfig"}
Unprivileged == cp.bundle.bootstrap = "oci-archive" /\ cp.euid # 0

\* C26: in the unprivileged oci-archive path of Get the temp-oci- directory
\* exists while Get is between the resolution and its return, that is during
\* the cache conversion, the layer copy and the config fetch, the source
\* reference points to it when the conversion starts, and it does not exist
\* once Get has returned, with or without an error.
C26_TempOci ==
    mode = "conveyor" =>
        /\ (InGetAfterResolve /\ Unprivileged) =>
              /\ "temp-oci-" \in cp.bundle.TmpDir
              /\ cpc = "Get:ConvertReference" => cp.srcRef = "temp-oci-"
        /\ ~InGetAfterResolve => "temp-oci-" \notin cp.bundle.TmpDir

C26_Witness ==
    /\ GetSucceeded /\ Unprivileged
    /\ Occurrences(clog, "TempDir") # {}
    /\ Occurrences(clog, "getConfig") # {}
    /\ "temp-oci-" \notin cp.bundle.TmpDir

\* the steps of Get and Pack, and the text each error return puts in front
\* of the error of the step ("" where the error is returned as it came)
Stages ==
    { "NewPolicyContext", "ParseReference", "TempDir", "extractArchive",
      "ConvertReference", "fetch", "getConfig", "unpackTmpfs",
      "insertBaseEnv", "insertRunScript", "insertEnv", "insertOCIConfig",
      "insertOCILabels" }
StageMessages(step) ==
    CASE step = "ParseReference" ->
             {"invalid image source", "error parsing reference"}
      [] step = "TempDir" -> {"could not create temporary oci directory"}
      [] step = "extractArchive" -> {"error extracting the OCI archive file"}
      [] step = "unpackTmpfs" -> {"while unpacking tmpfs"}
      [] step = "insertBaseEnv" -> {"while inserting base environment"}
      [] step = "insertRunScript" -> {"while inserting runscript"}
      [] step = "insertEnv" -> {"while inserting docker specific environment"}
      [] step = "insertOCIConfig" -> {"while inserting oci config"}
      [] step = "insertOCILabels" -> {"while inserting oci labels"}
      [] OTHER -> {}
\* the step that ran last in Get or Pack
LastStage(log) ==
    LET is == { i \in DOMAIN log : log[i] \in Stages }
    IN  IF is = {} THEN "" ELSE log[CHOOSE i \in is : \A j \in is : j <= i]
\* an error that Get or Pack returned after a step failed
StageFailed ==
    /\ mode = "conveyor" /\ cpc \in {"afterGet", "afterPack"}
    /\ cres # NoErr
    /\ cres[1] # "oci conveyorPacker does not support"
OncePerCall ==
    mode = "conveyor" =>
        \A step \in Stages \ {"ParseReference"} :
            Cardinality(Occurrences(clog, step)) <= 1

\* C27: every error that Get or Pack returns after a step failed is the
\* error of that step with the text of the step in front of it, for the
\* cache conversion, the layer copy and the config fetch as for every other
\* step, and no step runs more than once in a call.
C27_WrappedByStage ==
    /\ OncePerCall
    /\ StageFailed =>
          /\ Len(cres) >= 2
          /\ cres[1] \in StageMessages(LastStage(clog))

\* C27, as the code has it: the errors of ConvertReference, fetch and
\* getConfig are returned as they came and the errors of the other steps
\* have the text of the step in front of them; no step runs more than once.
C27_WrappedExceptCopy ==
    /\ OncePerCall
    /\ StageFailed =>
          IF LastStage(clog) \in {"ConvertReference", "fetch", "getConfig"}
          THEN cres = <<LastStage(clog)>>
          ELSE /\ Len(cres) >= 2
               /\ cres[1] \in StageMessages(LastStage(clog))

\* the steps of Pack in the order of the code
PackOrder ==
    << "unpackTmpfs", "insertBaseEnv", "insertRunScript", "insertEnv",
       "insertOCIConfig", "insertOCILabels" >>
IsPackStep(s) == s \in Range(PackOrder)
PackLog(log) == SelectSeq(log, IsPackStep)
PackFailed ==
    mode = "conveyor" /\ cpc = "afterPack" /\ cres # NoErr

C28_Order ==
    mode = "conveyor" =>
        LET pl == PackLog(clog)
            be == makeBaseEnv(cp.bundle.layers).err
        IN  /\ pl = SubSeq(PackOrder, 1, Len(pl))
            /\ PackFailed =>
                  /\ Len(cres) >= 2
                  /\ cres[1] \in StageMessages(pl[Len(pl)])
            /\ (cpc = "afterPack" /\ cres = NoErr) => pl = PackOrder
            /\ (Len(pl) >= 2 /\ be # NoErr) =>
                  /\ pl = SubSeq(PackOrder, 1, 2)
                  /\ PackFailed
                  /\ cres = <<"while inserting base environment">> \o be
C28_Keeps ==
    (mode = "conveyor" /\ cpc # "afterPack" /\ cpc' = "afterPack"
                       /\ cres' # NoErr) =>
        /\ cp' = cp
        /\ \A p \in Paths :
              rootfs'[p] = rootfs[p] \/ rootfs'[p].kind # "absent"

\* C28: Pack runs unpack, base scaffold, runscript, env file, oci-config and
\* labels in this order and stops at the first step that fails: the error
\* it returns is the one of the last step that ran, no later step runs, the
\* failing return removes no path that was there and leaves the bundle's
\* fields alone, and an error of makeBaseEnv always ends Pack with that
\* error.
C28_PackAborts == [](C28_Order) /\ [][C28_Keeps]_vars

C28_Witness ==
    /\ PackFailed
    /\ cp.cleanups = 0
    /\ PackLog(clog) = SubSeq(PackOrder, 1, 2)
    /\ cres[1] = "while inserting base environment"
    /\ rootfs # cp.bundle.layers
    /\ \A p \in Paths : cp.bundle.layers[p].kind # "absent"
                            => rootfs[p].kind # "absent"

(***************************************************************************)
(* Claims about the injected environment and the runtime-vars guard        *)
(***************************************************************************)
ReachedRestore == mode = "boot" /\ "RESTORE" \in Range(bhist.phases)
HasScript(envdir, name) == name \in Range(Scripts(envdir))

\* C29 (as stated): every run of the action script that reaches RESTORE has
\* sourced /.inject-apptainer-env.sh exactly once, whatever the environment
\* directory of the image holds.
C29_InjectedOnce == ReachedRestore => bhist.inject = 1

\* C29 (what the code guarantees): a run that reaches RESTORE has sourced
\* /.inject-apptainer-env.sh once when the environment directory is absent
\* or holds 99-base.sh, and not at all when the directory is there without
\* 99-base.sh.
C29_InjectedWithBase ==
    ReachedRestore =>
        bhist.inject = IF bimg.envdir = "absent"
                          \/ HasScript(bimg.envdir, "99-base.sh")
                       THEN 1 ELSE 0

\* C30 (as stated): the action script never tries to source
\* /.apptainer.d/env/99-runtimevars.sh where that file does not exist.
C30_SourcedOnlyIfPresent == mode = "boot" => bhist.missing = 0

\* C30 (what the code guarantees): the guard at the end of SOURCE_ENV
\* sources the file exactly when it does not exist, once; the failed source
\* does not end the script, which goes on to RESTORE.
C30_GuardInverted ==
    mode = "boot" =>
        /\ bhist.missing =
              IF /\ bpc \notin {"init", "clear_env", "clear_loop", "cleared",
                                "legacy", "env_loop", "runtimevars_guard"}
                 /\ bhist.exitby
                      \notin {"90-environment.sh", "95-apps.sh", "/environment"}
                 /\ ~HasScript(bimg.envdir, "99-runtimevars.sh")
              THEN 1 ELSE 0
        /\ bhist.missing = 1 => ReachedRestore \/ bpc = "restore_env"

(***************************************************************************)
(* Two builds in one process                                               *)
(*                                                                         *)
(* Each build has its own OCIConveyorPacker value, its own bundle, rootfs  *)
(* and scratch directory; the image cache of Opts.ImgCache is the one      *)
(* object both reach.  The build that runs is held in rootfs, cp, cpc,     *)
(* cres and clog, the other one in the variable other; Switch hands the    *)
(* processor over between any two steps, so every interleaving of the      *)
(* steps of the two builds is a behaviour.                                 *)
(***************************************************************************)
MaxBuildCleanUps == 1

\* the build that runs, as a record
RunningBuild ==
    [id |-> 3 - other.id, rootfs |-> rootfs, cp |-> cp, cpc |-> cpc,
     cres |-> cres, clog |-> clog]
Builds == {RunningBuild, other}

TwoBuildsBootstraps == {"docker", "oci-archive"}
TwoBuildsConfigs ==
    {ZeroConfig,
     [Entrypoint |-> << <<"x">> >>, Cmd |-> <<>>,
      Env |-> << <<"PATH", EQ, "b">> >>, Labels |-> << <<"k", "v">> >>]}
TwoBuildsLayers ==
    {EmptyFS("0755")} \cup
    { fs \in PackRootfs :
        /\ fs[<<"environment">>] = Absent
        /\ fs[RunscriptFile] = Absent
        /\ fs[EnvFile] = Absent }

\* the images and calls the two builds are run on: Get, Pack and CleanUp
\* in this order, with one CleanUp at most
TwoBuildsInputs ==
    /\ cpc # "panicked"
    /\ cp.b = "nil" => cp.cleanups = 0
    /\ cp.cleanups <= MaxBuildCleanUps
    /\ cp.imgConfig \in TwoBuildsConfigs
    /\ cp.bundle.layers \in TwoBuildsLayers

InitTwoBuilds ==
    /\ mode = "conveyor"
    /\ \E bs1, bs2 \in TwoBuildsBootstraps, nc1, nc2 \in BOOLEAN :
          /\ cp = NewConveyor(NewBundle(bs1, nc1), 1000)
          /\ other = [id |-> 2, rootfs |-> EmptyFS("0755"),
                      cp |-> NewConveyor(NewBundle(bs2, nc2), 1000),
                      cpc |-> "new", cres |-> <<"idle">>, clog |-> <<>>]
    /\ rootfs = EmptyFS("0755")
    /\ cpc = "new" /\ cres = <<"idle">> /\ clog = <<>>
    /\ cache = {}
    /\ XIdle /\ SIdle /\ BIdle

\* the scheduler runs the other build
Switch ==
    /\ mode = "conveyor" /\ other.id # 0
    /\ rootfs' = other.rootfs
    /\ cp' = other.cp
    /\ cpc' = other.cpc
    /\ cres' = other.cres
    /\ clog' = other.clog
    /\ other' = RunningBuild
    /\ UNCHANGED <<mode, xvars, svars, bvars, cache>>

BuildStep == NextConveyor /\ TwoBuildsInputs'

NextTwoBuilds ==
    \/ BuildStep
    \/ Switch

SpecTwoBuilds == InitTwoBuilds /\ [][NextTwoBuilds]_vars

\* what a build that runs alone leaves in its rootfs after a Pack without
\* error
PackedRootfs(layers, cfg) ==
    LET a == makeBaseEnv(layers).fs
        b == CreateWriteChmod(a, RunscriptFile, GeneratedRunscript(cfg)).fs
        c == CreateWriteChmod(b, EnvFile, GeneratedEnvFile(cfg)).fs
    IN  CreateAndWrite(c, LabelsFile, "0644", GeneratedLabels(cfg)).fs

\* the reference Get resolves the source of a bundle to
ResolvedRef(c) ==
    IF c.bundle.bootstrap = "oci-archive" /\ c.euid # 0
    THEN "temp-oci-" ELSE c.bundle.bootstrap

\* the outcome of a build as the build running alone has it: it depends on
\* the bundle, the image and the errors of the build's own steps only
AsAlone(b) ==
    /\ b.cpc \in {"Get:fetch", "Get:getConfig", "afterGet"}
       /\ (b.cpc = "afterGet" => b.cres = NoErr) =>
          b.cp.srcRef = IF b.cp.bundle.NoCache
                        THEN ResolvedRef(b.cp) ELSE "cache"
    /\ (b.cpc = "afterGet" /\ b.cp.cleanups = 0) =>
          /\ b.rootfs = EmptyFS("0755")
          /\ b.cp.bundle.JSONObjects = EmptyMap
          /\ b.cres = NoErr => b.cp.bundle.TmpDir = {"tmp"}
    /\ (b.cpc = "afterPack" /\ b.cres = NoErr /\ b.cp.cleanups = 0) =>
          /\ b.rootfs = PackedRootfs(b.cp.bundle.layers, b.cp.imgConfig)
          /\ b.cp.bundle.JSONObjects =
                MapPut(EmptyMap, "oci-config", Marshal(b.cp.imgConfig))
    /\ (b.cpc \in {"afterGet", "afterPack"} /\ b.cres # NoErr) =>
          b.cres[Len(b.cres)] \in
              {"ParseReference", "TempDir", "extractArchive",
               "ConvertReference", "fetch", "getConfig", "unpackRootfs",
               "EISDIR", "EIO"}

TwoBuilds == mode = "conveyor" /\ other.id # 0

OutcomesAsAlone == TwoBuilds => \A b \in Builds : AsAlone(b)

\* a step of the build that runs leaves the other build as it is, and a
\* switch changes neither build
OtherUntouched ==
    TwoBuilds =>
        IF other'.id # other.id
        THEN other' = RunningBuild /\ RunningBuild' = other /\ cache' = cache
        ELSE other' = other

====
